---- MODULE Spec2Model ----
(***************************************************************************)
(* offline-map: the renderer, its render loop, the IndexedDB store, the    *)
(* load (form submission) and clear workflows and the pan/zoom/toggle      *)
(* handlers, as one state machine.                                         *)
(*                                                                         *)
(* One action is one browser task together with the microtasks it queues: *)
(* a handler runs up to its first await on a pending promise, and an       *)
(* IndexedDB or network completion runs the continuation of the await it   *)
(* settles.  Numbers are scaled to integers: zoom levels in tenths,        *)
(* coordinates of the bounding box in hundredths of a degree.              *)
(***************************************************************************)
EXTENDS Integers, Sequences, FiniteSets, TLC

(* ------------------------------ bounds -------------------------------- *)

\* clicks, submits and drag gestures (a mousedown or a mouseup) in one
\* behaviour; the mousemove events of a gesture are not counted
MaxUserEvents == 2

(* ------------------------- program constants -------------------------- *)

MAX_ZOOM_LEVEL == 60
MIN_ZOOM_LEVEL == 4
ZoomStep == 5
ConstructorZoom == 10
DefaultZoom == 20
LoadedZoom == 20

Null == "null"
Handle == "OSM-DB"

\* a localStorage entry: absent, or the stored text
Absent == <<>>
Stored(v) == <<v>>

STORE_NAMES == {"nodes", "ways", "relations"}

\* clientX / clientY values the mouse events carry
Coords == {0, 1}
DownCoords == {0}

(* ----------------------------- documents ------------------------------ *)

\* An element of a parsed XML document: its tag name, its attributes (a
\* function from the names present to their text) and its child elements.
Elem(tag, attrs, sub) == [tag |-> tag, attrs |-> attrs, sub |-> sub]

Attrs1(n1, v1) == [n \in {n1} |-> v1]
Attrs2(n1, v1, n2, v2) == [n \in {n1, n2} |-> IF n = n1 THEN v1 ELSE v2]
Attrs3(n1, v1, n2, v2, n3, v3) ==
    [n \in {n1, n2, n3} |-> IF n = n1 THEN v1 ELSE IF n = n2 THEN v2 ELSE v3]

\* what a called function does: it throws an error or returns a value
Throw(message) == [threw |-> TRUE, error |-> message]
Return(value) == [threw |-> FALSE, value |-> value]

\* the first of the results that threw
FirstThrown(results, thrown) == results[CHOOSE i \in thrown : \A j \in thrown : i <= j]

\* the evaluation of several expressions in order: the first throw leaves,
\* otherwise the values of all of them
InOrder(results) ==
    IF \A i \in DOMAIN results : ~results[i].threw
    THEN Return([i \in DOMAIN results |-> results[i].value])
    ELSE FirstThrown(results, {i \in DOMAIN results : results[i].threw})

\* parseFloat on the text of a lat/lon attribute, in tenths of a degree: the
\* longest numeric prefix, NaN if there is none
parseFloatText(text) ==
    CASE text = "51.0" -> [nan |-> FALSE, v |-> 510]
      [] text = "-0.1" -> [nan |-> FALSE, v |-> -1]
      [] text = "12abc" -> [nan |-> FALSE, v |-> 120]
      [] OTHER -> [nan |-> TRUE, v |-> 0]

\* String as a parser: the attribute text itself
StringOf(text) == [nan |-> FALSE, v |-> text]

\* the second half of getAttribute: the check of the parsed value
checkParsed(parsed, attributeName) ==
    IF parsed.nan
    THEN Throw("Invalid value for attribute: " \o attributeName)
    ELSE Return(parsed.v)

\* getAttribute(element, attributeName, parser)
getAttribute(element, attributeName, parser) ==
    IF attributeName \notin DOMAIN element.attrs
    THEN Throw("Missing attribute: " \o attributeName)
    ELSE checkParsed(IF parser = "parseFloat"
                     THEN parseFloatText(element.attrs[attributeName])
                     ELSE StringOf(element.attrs[attributeName]), attributeName)

\* element.getElementsByTagName(tagName) on the children of an element
getElementsByTagName(elements, tagName) == SelectSeq(elements, LAMBDA e : e.tag = tagName)

\* the object literals of the transforms, built once their fields are evaluated
tagObject(f) ==
    IF f.threw THEN f ELSE Return([key |-> f.value[1], value |-> f.value[2]])

nodeObject(f) ==
    IF f.threw THEN f
    ELSE Return([id |-> f.value[1], lat |-> f.value[2], lon |-> f.value[3], tags |-> f.value[4]])

wayObject(f) ==
    IF f.threw THEN f
    ELSE Return([id |-> f.value[1], nodes |-> f.value[2], tags |-> f.value[3]])

memberObject(f) ==
    IF f.threw THEN f
    ELSE Return([type |-> f.value[1], ref |-> f.value[2], role |-> f.value[3]])

relationObject(f) ==
    IF f.threw THEN f
    ELSE Return([id |-> f.value[1], members |-> f.value[2], tags |-> f.value[3]])

dataObject(f) ==
    IF f.threw THEN f
    ELSE Return([nodes |-> f.value[1], ways |-> f.value[2], relations |-> f.value[3]])

\* the tag children of an element, transformed
tagsOf(tagElements) ==
    InOrder([i \in DOMAIN tagElements |->
        tagObject(InOrder(<<getAttribute(tagElements[i], "k", "String"),
                            getAttribute(tagElements[i], "v", "String")>>))])

\* extractTags(element)
extractTags(element) == tagsOf(getElementsByTagName(element.sub, "tag"))

nodesOf(elements) ==
    InOrder([i \in DOMAIN elements |->
        nodeObject(InOrder(<<getAttribute(elements[i], "id", "String"),
                             getAttribute(elements[i], "lat", "parseFloat"),
                             getAttribute(elements[i], "lon", "parseFloat"),
                             extractTags(elements[i])>>))])

\* parseNodes(xmlDoc)
parseNodes(xmlDoc) == nodesOf(getElementsByTagName(xmlDoc, "node"))

refsOf(nds) == InOrder([k \in DOMAIN nds |-> getAttribute(nds[k], "ref", "String")])

waysOf(elements) ==
    InOrder([i \in DOMAIN elements |->
        wayObject(InOrder(<<getAttribute(elements[i], "id", "String"),
                            refsOf(getElementsByTagName(elements[i].sub, "nd")),
                            extractTags(elements[i])>>))])

\* parseWays(xmlDoc)
parseWays(xmlDoc) == waysOf(getElementsByTagName(xmlDoc, "way"))

membersOf(ms) ==
    InOrder([k \in DOMAIN ms |->
        memberObject(InOrder(<<getAttribute(ms[k], "type", "String"),
                               getAttribute(ms[k], "ref", "String"),
                               getAttribute(ms[k], "role", "String")>>))])

relationsOf(elements) ==
    InOrder([i \in DOMAIN elements |->
        relationObject(InOrder(<<getAttribute(elements[i], "id", "String"),
                                 membersOf(getElementsByTagName(elements[i].sub, "member")),
                                 extractTags(elements[i])>>))])

\* parseRelations(xmlDoc)
parseRelations(xmlDoc) == relationsOf(getElementsByTagName(xmlDoc, "relation"))

\* A response body: an empty string, a string of white space, text that is
\* not well-formed XML, or a well-formed document with its elements.
Text(kind, elements) == [kind |-> kind, elements |-> elements]

\* parseXMLString(xmlString)
parseXMLString(xmlString) ==
    IF xmlString.kind \in {"empty", "space"}
    THEN Throw("A non-empty XML string must be provided")
    ELSE IF xmlString.kind = "malformed"
    THEN Throw("Error parsing XML")
    ELSE Return(xmlString.elements)

\* parseOSMData after parseXMLString
parseDocument(xml) ==
    IF xml.threw THEN xml
    ELSE dataObject(InOrder(<<parseNodes(xml.value), parseWays(xml.value),
                              parseRelations(xml.value)>>))

\* parseOSMData(xmlString)
parseOSMData(xmlString) == parseDocument(parseXMLString(xmlString))

NodeElem(id, lat, lon) == Elem("node", Attrs3("id", id, "lat", lat, "lon", lon), <<>>)
WayElem(id, ref, sub) == Elem("way", Attrs1("id", id), <<Elem("nd", Attrs1("ref", ref), <<>>)>> \o sub)
TagElem(k, v) == Elem("tag", Attrs2("k", k, "v", v), <<>>)
RelationElem(id, ref) ==
    Elem("relation", Attrs1("id", id),
         <<Elem("member", Attrs3("type", "way", "ref", ref, "role", "outer"), <<>>)>>)

\* The bodies the remote API can answer with, by name.  A and B parse; A has
\* a node whose lat attribute is the text 12abc; B has ways only, two of
\* them with the same id.
Body(name) ==
    CASE name = "A" -> Text("xml", <<NodeElem("1", "51.0", "-0.1"),
                                     NodeElem("2", "12abc", "-0.1"), WayElem("1", "1", <<>>),
                                     RelationElem("1", "1")>>)
      [] name = "B" -> Text("xml", <<WayElem("1", "1", <<>>),
                                     WayElem("1", "2", <<TagElem("building", "yes")>>)>>)
      [] name = "empty" -> Text("empty", <<>>)
      [] name = "space" -> Text("space", <<>>)
      [] name = "malformed" -> Text("malformed", <<>>)
      [] name = "no lat" ->
            Text("xml", <<NodeElem("1", "51.0", "-0.1"),
                          Elem("node", Attrs2("id", "2", "lon", "-0.1"), <<>>),
                          WayElem("1", "1", <<>>)>>)
      [] name = "bad lon" ->
            Text("xml", <<NodeElem("1", "51.0", "abc"), WayElem("1", "1", <<>>)>>)
      [] name = "no ref" ->
            Text("xml", <<NodeElem("1", "51.0", "-0.1"),
                          Elem("way", Attrs1("id", "1"), <<Elem("nd", <<>>, <<>>)>>)>>)
      [] name = "no role" ->
            Text("xml", <<WayElem("1", "1", <<>>),
                          Elem("relation", Attrs1("id", "1"),
                               <<Elem("member", Attrs2("type", "way", "ref", "1"), <<>>)>>)>>)
      [] name = "no tag value" ->
            Text("xml", <<WayElem("1", "1", <<Elem("tag", Attrs1("k", "building"), <<>>)>>)>>)

\* the bodies that parse
Docs == {"A", "B"}

\* the bodies that do not
BadDocs == {"empty", "space", "malformed", "no lat", "bad lon", "no ref", "no role",
            "no tag value"}

\* what parseOSMData returns for each document that parses
ParsedDocs == [d \in Docs |-> parseOSMData(Body(d)).value]

\* the entities parseOSMData returns for collection s of document d
DocItems(d, s) == ParsedDocs[d][s]

idsOf(items) == {items[i].id : i \in DOMAIN items}

DocIds(d, s) == idsOf(DocItems(d, s))

\* What the puts of storeItems leave of the items in a collection: for each
\* id the item put last.  A record keeps its id (the key path), the document
\* and the position of the item its field values come from.
recordsOf(items, d) ==
    {[id |-> items[i].id, doc |-> d, at |-> i] :
        i \in {k \in DOMAIN items : \A j \in DOMAIN items : items[j].id = items[k].id => j <= k}}

StoredDocs == [d \in Docs |-> [s \in STORE_NAMES |-> recordsOf(DocItems(d, s), d)]]

DocRecords(d, s) == StoredDocs[d][s]

EmptyStores == [s \in STORE_NAMES |-> {}]

\* objectStore.put(record) for every record: one record per key
PutAll(store, records) ==
    {r \in store : r.id \notin {x.id : x \in records}} \cup records

(* --------------------------- bounding boxes --------------------------- *)

Num(v) == [nan |-> FALSE, v |-> v]
NaN == [nan |-> TRUE, v |-> 0]

Box(minLon, minLat, maxLon, maxLat) ==
    [minLon |-> minLon, minLat |-> minLat, maxLon |-> maxLon, maxLat |-> maxLat]

\* the values parseFloat reads from the four input fields, in hundredths of
\* a degree; NaN stands for every value that is not a finite number
Boxes ==
    { Box(Num(-78), Num(5204), Num(-74), Num(5205)),
      Box(Num(10), Num(10), Num(10), Num(20)),
      Box(Num(20), Num(10), Num(10), Num(20)),
      Box(Num(10), Num(10), Num(20), Num(10)),
      Box(Num(10), Num(20), Num(20), Num(10)),
      Box(NaN, Num(10), Num(20), Num(20)),
      Box(Num(10), NaN, Num(20), Num(20)),
      Box(Num(10), Num(10), NaN, Num(20)),
      Box(Num(10), Num(10), Num(20), NaN),
      Box(Num(0), Num(0), Num(50), Num(50)),
      Box(Num(0), Num(0), Num(51), Num(50)),
      Box(Num(-18000), Num(0), Num(-17990), Num(10)),
      Box(Num(17990), Num(0), Num(18000), Num(10)),
      Box(Num(-18001), Num(0), Num(-17990), Num(10)),
      Box(Num(17990), Num(0), Num(18001), Num(10)),
      Box(Num(0), Num(-9000), Num(10), Num(-8990)),
      Box(Num(0), Num(8990), Num(10), Num(9000)),
      Box(Num(0), Num(-9001), Num(10), Num(-8990)),
      Box(Num(0), Num(8990), Num(10), Num(9001)),
      Box(Num(17990), Num(0), Num(18100), Num(50)),
      Box(Num(17990), Num(8990), Num(18001), Num(9001)) }

\* a range check that leaves the two ends out
isInRange_exclusive(x, lo, hi) == x.v > lo /\ x.v < hi

isValidNumber(x) == ~x.nan

isInRange(x, lo, hi) == x.v >= lo /\ x.v <= hi

\* the message of the first rule that fails, or "null"
getValidationError(b) ==
    IF ~(isValidNumber(b.minLon) /\ isValidNumber(b.minLat)
         /\ isValidNumber(b.maxLon) /\ isValidNumber(b.maxLat))
    THEN "All coordinate values must be valid numbers"
    ELSE IF ~(b.minLon.v < b.maxLon.v)
    THEN "Minimum Longitude must be less than maximum Longitude"
    ELSE IF ~(b.minLat.v < b.maxLat.v)
    THEN "Minimum Latitude must be less than maximum Latitude"
    ELSE IF ~((b.maxLon.v - b.minLon.v) * (b.maxLat.v - b.minLat.v) <= 2500)
    THEN "Bounding box area cannot exceed 0.25 square degrees"
    ELSE IF ~(isInRange(b.minLon, -18000, 18000) /\ isInRange(b.maxLon, -18000, 18000))
    THEN "Longitude values must be between -180 and 180"
    ELSE IF ~(isInRange(b.minLat, -9000, 9000) /\ isInRange(b.maxLat, -9000, 9000))
    THEN "Latitude values must be between -90 and 90"
    ELSE Null

validateInputs(b) == getValidationError(b) = Null

(* ------------------------------ state --------------------------------- *)

VARIABLES
    phase,          \* "booting" until initialiseApp has opened the database
    handle,         \* what openDatabase resolves with
    renderer,       \* the MapRenderer instance
    localStorage,   \* the persisted settings
    db,             \* the three durable collections
    txq,            \* IndexedDB transactions not yet finished, in creation order
    renders,        \* render calls suspended in fetchData
    loads,          \* form submissions suspended in fetchAndStoreOsmData
    canvas,         \* what the drawing surface shows
    uiCounts,       \* the three counters of the page
    pan,            \* closure state of setupPanning
    events,         \* user events so far
    lastLog,        \* the message the last step reported ("none": nothing)
    calls,          \* the render calls the last step began, by origin
    loadedDocs,     \* the documents whose load has reported success so far
    probe           \* a direct call of one exported function: arguments, then result

vars == <<phase, handle, renderer, localStorage, db, txq, renders, loads,
          canvas, uiCounts, pan, events, lastLog, calls, loadedDocs, probe>>

(* --------------------------- the renderer ----------------------------- *)

\* new MapRenderer(canvas)
MapRenderer ==
    [ offsetX |-> 0, offsetY |-> 0, currentOffsetX |-> 0, currentOffsetY |-> 0,
      zoomLevel |-> ConstructorZoom,
      needsRender |-> FALSE, isRendering |-> FALSE, cacheReady |-> FALSE,
      database |-> Null,
      cachedWays |-> {}, cachedNodes |-> {}, cachedRelations |-> {},
      showWays |-> TRUE, showNodes |-> FALSE, showRelations |-> TRUE ]

Blank == [blank |-> TRUE, ox |-> 0, oy |-> 0, zoom |-> 0]

\* The synchronous part of a task works on the machine: the renderer, the
\* settings, the suspended render calls, the transaction queue, the page.
Machine ==
    [ r |-> renderer, ls |-> localStorage, renders |-> renders, txq |-> txq,
      canvas |-> canvas, uiCounts |-> uiCounts, log |-> "none", calls |-> <<>> ]

Apply(m) ==
    /\ renderer' = m.r
    /\ localStorage' = m.ls
    /\ renders' = m.renders
    /\ txq' = m.txq
    /\ canvas' = m.canvas
    /\ uiCounts' = m.uiCounts
    /\ lastLog' = m.log
    /\ calls' = m.calls

Log(m, message) == [m EXCEPT !.log = message]

\* the smallest id no suspended call uses
FreeId(f) ==
    CHOOSE n \in 1..(Cardinality(DOMAIN f) + 1) :
        n \notin DOMAIN f /\ \A k \in 1..(n - 1) : k \in DOMAIN f

Without(f, id) == [k \in DOMAIN f \ {id} |-> f[k]]

Remove(q, i) == SubSeq(q, 1, i - 1) \o SubSeq(q, i + 1, Len(q))

ReadTx(s, id) == [kind |-> "read", store |-> s, owner |-> id, doc |-> "-"]
WriteTx(s, id, d) == [kind |-> "write", store |-> s, owner |-> id, doc |-> d]
ClearTx == [kind |-> "clear", store |-> "all", owner |-> 0, doc |-> "-"]

\* a pass that takes the pan back to the stored offset
draw_resetsPan(m) ==
    [m EXCEPT
        !.uiCounts = [nodes |-> Cardinality(m.r.cachedNodes),
                      ways |-> Cardinality(m.r.cachedWays),
                      relations |-> Cardinality(m.r.cachedRelations)],
        !.canvas = [blank |-> FALSE, ox |-> m.r.offsetX,
                    oy |-> m.r.offsetY, zoom |-> m.r.zoomLevel],
        !.r.currentOffsetX = m.r.offsetX,
        !.r.currentOffsetY = m.r.offsetY]

\* updateCounts, this.clear() and the drawing of the cached collections
draw(m) ==
    [m EXCEPT
        !.uiCounts = [nodes |-> Cardinality(m.r.cachedNodes),
                      ways |-> Cardinality(m.r.cachedWays),
                      relations |-> Cardinality(m.r.cachedRelations)],
        !.canvas = [blank |-> FALSE, ox |-> m.r.currentOffsetX,
                    oy |-> m.r.currentOffsetY, zoom |-> m.r.zoomLevel]]

\* fetchData up to its await: three getAll requests, one transaction each
fetchData(m, origin) ==
    LET id == FreeId(m.renders) IN
    [m EXCEPT
        !.renders = (id :> [origin |-> origin, answered |-> {}, nodes |-> {},
                            ways |-> {}, relations |-> {}]) @@ m.renders,
        !.txq = m.txq \o <<ReadTx("nodes", id), ReadTx("ways", id),
                           ReadTx("relations", id)>>]

\* a render that reads the database whether or not the cache is ready
render_alwaysFetches(m, origin) ==
    LET begun == [m EXCEPT !.calls = Append(m.calls, origin)] IN
    IF begun.r.database = Null
    THEN Log(begun, "Database not initialised")
    ELSE fetchData([begun EXCEPT !.r.isRendering = TRUE], origin)

\* render(database) up to its first suspension, or to its end
render(m, origin) ==
    LET begun == [m EXCEPT !.calls = Append(m.calls, origin)] IN
    IF begun.r.database = Null
    THEN Log(begun, "Database not initialised")
    ELSE IF ~begun.r.cacheReady
    THEN fetchData([begun EXCEPT !.r.isRendering = TRUE], origin)
    ELSE draw(begun)

\* a render that leaves the relations out of the cache
renderResume_dropsRelations(m, got) ==
    draw([m EXCEPT !.r.cachedNodes = got.nodes,
                   !.r.cachedWays = got.ways,
                   !.r.cachedRelations = {},
                   !.r.cacheReady = TRUE,
                   !.r.isRendering = FALSE])

\* the rest of fetchData and render once the three reads have answered
renderResume(m, got) ==
    draw([m EXCEPT !.r.cachedNodes = got.nodes,
                   !.r.cachedWays = got.ways,
                   !.r.cachedRelations = got.relations,
                   !.r.cacheReady = TRUE,
                   !.r.isRendering = FALSE])

(* ------------------------------ Init ---------------------------------- *)

FreshSettings ==
    [zoomLevel |-> Absent, offsetX |-> Absent, offsetY |-> Absent,
     showWays |-> Absent, showNodes |-> Absent, showRelations |-> Absent]

\* settings an earlier session left behind
SavedSettings ==
    [zoomLevel |-> Stored(25), offsetX |-> Stored(1), offsetY |-> Stored(0),
     showWays |-> Stored("false"), showNodes |-> Stored("true"),
     showRelations |-> Absent]

InitCommon ==
    /\ phase = "booting"
    /\ renderer = MapRenderer
    /\ localStorage \in {FreshSettings, SavedSettings}
    /\ db \in {EmptyStores, [s \in STORE_NAMES |-> DocRecords("A", s)]}
    /\ txq = <<>>
    /\ renders = <<>>
    /\ loads = <<>>
    /\ canvas = Blank
    /\ uiCounts = [nodes |-> 0, ways |-> 0, relations |-> 0]
    /\ pan = [isPanning |-> FALSE, startX |-> 0, startY |-> 0]
    /\ events = 0
    /\ lastLog = "none"
    /\ calls = <<>>
    /\ loadedDocs = {r.doc : r \in UNION {db[s] : s \in STORE_NAMES}}

\* no exported function is called directly while the application runs
Idle == [fn |-> "none"]

Init == InitCommon /\ handle = Handle /\ probe = Idle

(* ----------------------------- start-up ------------------------------- *)

parseFloat(text) == text[1]

String(v) == Stored(v)

\* restoreCanvasState(renderer)
restoreCanvasState(m) ==
    LET z == IF m.ls.zoomLevel # Absent THEN parseFloat(m.ls.zoomLevel) ELSE DefaultZoom
        x == IF m.ls.offsetX # Absent THEN parseFloat(m.ls.offsetX) ELSE m.r.offsetX
        y == IF m.ls.offsetY # Absent THEN parseFloat(m.ls.offsetY) ELSE m.r.offsetY
    IN [m EXCEPT !.r.zoomLevel = z,
                 !.r.offsetX = x, !.r.currentOffsetX = x,
                 !.r.offsetY = y, !.r.currentOffsetY = y]

\* storedValue ? storedValue === "true" : fallback
storedFlag(text, fallback) == IF text # Absent THEN text = Stored("true") ELSE fallback

\* the part of setupToggleWays / Nodes / Relations that runs at start-up
setupToggleWays(m) ==
    render([m EXCEPT !.r.showWays = storedFlag(m.ls.showWays, TRUE)], "handler")

setupToggleNodes(m) ==
    render([m EXCEPT !.r.showNodes = storedFlag(m.ls.showNodes, FALSE)], "handler")

setupToggleRelations(m) ==
    render([m EXCEPT !.r.showRelations = storedFlag(m.ls.showRelations, TRUE)], "handler")

\* setupEventListeners -> setupUIControls, in the order of the calls
setupEventListeners(m) == setupToggleRelations(setupToggleNodes(setupToggleWays(m)))

\* initialiseApp once openDatabase has resolved
initialiseApp ==
    /\ phase = "booting"
    /\ phase' = "running"
    /\ LET m0 == [Machine EXCEPT !.r.database = handle]
           m1 == setupEventListeners(restoreCanvasState(m0))
           m2 == render(m1, "handler")
       IN Apply(IF m2.log = "none"
                THEN Log(m2, "Application initialised successfully") ELSE m2)
    /\ UNCHANGED <<probe, loadedDocs, handle, db, loads, pan, events>>

\* initialiseApp when openDatabase rejects: no listener is installed
initialiseAppFails ==
    /\ phase = "booting"
    /\ phase' = "failed"
    /\ Apply(Log(Machine, "Initialisation error"))
    /\ UNCHANGED <<probe, loadedDocs, handle, db, loads, pan, events>>

(* --------------------------- render loop ------------------------------ *)

\* one animation frame of startRenderLoop; the finally callback runs in the
\* same task when render returned without suspending
renderFrame ==
    /\ renderer.needsRender /\ ~renderer.isRendering
    /\ LET m1 == render([Machine EXCEPT !.r.isRendering = TRUE], "loop")
           suspended == DOMAIN m1.renders # DOMAIN renders
           m2 == [m1 EXCEPT !.r.needsRender = FALSE]
       IN Apply(IF suspended THEN m2 ELSE [m2 EXCEPT !.r.isRendering = FALSE])
    /\ UNCHANGED <<probe, loadedDocs, phase, handle, db, loads, pan, events>>

(* --------------------------- user events ------------------------------ *)

UserEvent ==
    /\ phase = "running"
    /\ events < MaxUserEvents
    /\ events' = events + 1

Min(a, b) == IF a < b THEN a ELSE b
Max(a, b) == IF a > b THEN a ELSE b

\* updateZoom leaving the stored zoom level as it was
updateZoom_unpersisted(m, newZoomLevel) ==
    render([m EXCEPT !.r.zoomLevel = newZoomLevel], "handler")

\* updateZoom(renderer, database, newZoomLevel)
updateZoom(m, newZoomLevel) ==
    render([m EXCEPT !.r.zoomLevel = newZoomLevel,
                     !.ls.zoomLevel = String(newZoomLevel)], "handler")

zoomIn ==
    /\ UserEvent
    /\ Apply(updateZoom(Machine, Min(renderer.zoomLevel + ZoomStep, MAX_ZOOM_LEVEL)))
    /\ UNCHANGED <<probe, loadedDocs, phase, handle, db, loads, pan>>

zoomOut ==
    /\ UserEvent
    /\ Apply(updateZoom(Machine, Max(renderer.zoomLevel - ZoomStep, MIN_ZOOM_LEVEL)))
    /\ UNCHANGED <<probe, loadedDocs, phase, handle, db, loads, pan>>

BoolText(b) == IF b THEN "true" ELSE "false"

toggleWays ==
    /\ UserEvent
    /\ Apply(render([Machine EXCEPT !.r.showWays = ~renderer.showWays,
                                    !.ls.showWays = String(BoolText(~renderer.showWays))],
                    "handler"))
    /\ UNCHANGED <<probe, loadedDocs, phase, handle, db, loads, pan>>

toggleNodes ==
    /\ UserEvent
    /\ Apply(render([Machine EXCEPT !.r.showNodes = ~renderer.showNodes,
                                    !.ls.showNodes = String(BoolText(~renderer.showNodes))],
                    "handler"))
    /\ UNCHANGED <<probe, loadedDocs, phase, handle, db, loads, pan>>

toggleRelations ==
    /\ UserEvent
    /\ Apply(render([Machine EXCEPT !.r.showRelations = ~renderer.showRelations,
                                    !.ls.showRelations = String(BoolText(~renderer.showRelations))],
                    "handler"))
    /\ UNCHANGED <<probe, loadedDocs, phase, handle, db, loads, pan>>

(* ------------------------------ panning ------------------------------- *)

\* updateCurrentOffset(dx, dy)
updateCurrentOffset(m, dx, dy) ==
    [m EXCEPT !.r.currentOffsetX = m.r.offsetX + dx,
              !.r.currentOffsetY = m.r.offsetY - dy,
              !.r.needsRender = TRUE]

\* storeCurrentOffset() persisting the offsets without committing them
storeCurrentOffset_persistOnly(m) ==
    [m EXCEPT !.ls.offsetX = String(m.r.currentOffsetX),
              !.ls.offsetY = String(m.r.currentOffsetY)]

\* storeCurrentOffset()
storeCurrentOffset(m) ==
    [m EXCEPT !.r.offsetX = m.r.currentOffsetX,
              !.r.offsetY = m.r.currentOffsetY,
              !.ls.offsetX = String(m.r.currentOffsetX),
              !.ls.offsetY = String(m.r.currentOffsetY)]

onMouseDown ==
    /\ UserEvent
    /\ \E x \in DownCoords, y \in DownCoords :
          pan' = [isPanning |-> TRUE, startX |-> x, startY |-> y]
    /\ Apply(Machine)
    /\ UNCHANGED <<probe, loadedDocs, phase, handle, db, loads>>

\* a mousemove event that the throttle lets through (one that comes at least
\* 50 ms after the last one let through); the others change nothing
throttledMouseMove ==
    /\ phase = "running"
    /\ \E x \in Coords, y \in Coords :
          Apply(IF pan.isPanning
                THEN updateCurrentOffset(Machine, x - pan.startX, y - pan.startY)
                ELSE Machine)
    /\ UNCHANGED <<probe, loadedDocs, phase, handle, db, loads, pan, events>>

\* mouseup and mouseleave
onMouseUp ==
    /\ UserEvent
    /\ pan.isPanning
    /\ pan' = [pan EXCEPT !.isPanning = FALSE]
    /\ Apply(storeCurrentOffset(Machine))
    /\ UNCHANGED <<probe, loadedDocs, phase, handle, db, loads>>

(* --------------------------- IndexedDB -------------------------------- *)

\* IndexedDB serves the transactions of the connection in the order of their
\* creation: the oldest unfinished transaction is the one that finishes next.
CanRun(i) == i = 1

\* the queue without the transactions of a settled call: their results are
\* dropped by the rejected Promise.all
DropReads(q, id) ==
    SelectSeq(q, LAMBDA t : ~(t.kind = "read" /\ t.owner = id))

\* the write transactions of a rejected load still run, with nobody waiting
Orphan(q, id) ==
    [k \in DOMAIN q |->
        IF q[k].kind = "write" /\ q[k].owner = id THEN [q[k] EXCEPT !.owner = 0] ELSE q[k]]

\* getObjectStoreData: request.onsuccess
getAllSucceeds ==
    \E i \in DOMAIN txq :
        /\ txq[i].kind = "read" /\ CanRun(i)
        /\ LET id == txq[i].owner
               s == txq[i].store
               got == [renders[id] EXCEPT ![s] = db[s], !.answered = @ \cup {s}]
               m == [Machine EXCEPT !.txq = Remove(txq, i)]
           IN Apply(IF got.answered = STORE_NAMES
                    THEN renderResume([m EXCEPT !.renders = Without(renders, id)], got)
                    ELSE [m EXCEPT !.renders[id] = got])
        /\ UNCHANGED <<probe, loadedDocs, phase, handle, db, loads, pan, events>>

\* getObjectStoreData: request.onerror; fetchData logs and rethrows, render
\* rejects at its await, and a loop-started call runs its finally callback
getAllFails ==
    \E i \in DOMAIN txq :
        /\ txq[i].kind = "read" /\ CanRun(i)
        /\ LET id == txq[i].owner
               m == [Machine EXCEPT !.txq = DropReads(txq, id),
                                    !.renders = Without(renders, id),
                                    !.log = "Error fetching data"]
           IN Apply(IF renders[id].origin = "loop"
                    THEN [m EXCEPT !.r.isRendering = FALSE] ELSE m)
        /\ UNCHANGED <<probe, loadedDocs, phase, handle, db, loads, pan, events>>

(* ------------------------------- clear -------------------------------- *)

\* resetRendererState(renderer)
resetRendererState(m) ==
    [m EXCEPT !.r.offsetX = 0, !.r.offsetY = 0, !.r.zoomLevel = ConstructorZoom,
              !.r.currentOffsetX = 0, !.r.currentOffsetY = 0]

\* a clearRendererCache that wipes the canvas but keeps the cached collections
clearRendererCache_keepsCache(m) ==
    [m EXCEPT !.canvas = Blank, !.r.needsRender = FALSE]

\* clearRendererCache(renderer)
clearRendererCache(m) ==
    [m EXCEPT !.canvas = Blank,
              !.r.cachedWays = {}, !.r.cachedNodes = {}, !.r.cachedRelations = {},
              !.r.cacheReady = FALSE, !.r.needsRender = FALSE]

\* resetDataCountUI()
resetDataCountUI(m) ==
    [m EXCEPT !.uiCounts = [nodes |-> 0, ways |-> 0, relations |-> 0]]

\* clearLocalStorage()
clearLocalStorage(m) ==
    [m EXCEPT !.ls.offsetX = Absent, !.ls.offsetY = Absent, !.ls.zoomLevel = Absent]

\* the click handler after await clearDatabase(database) has resolved
clearSucceeded(m) ==
    Log(clearLocalStorage(resetDataCountUI(clearRendererCache(resetRendererState(m)))),
        "Data cleared successfully")

\* a catch block that resets the renderer although the clear failed
clearFailed_resets(m) ==
    Log([m EXCEPT !.canvas = Blank,
                  !.r.cachedWays = {}, !.r.cachedNodes = {}, !.r.cachedRelations = {},
                  !.r.cacheReady = FALSE, !.r.needsRender = FALSE],
        "Error clearing data")

\* the catch block of the click handler
clearFailed(m) == Log(m, "Error clearing data")

\* a click handler that resets the page before the transaction has completed
clearDataClick_resetsAtOnce ==
    /\ UserEvent
    /\ Apply(IF renderer.database = Null
             THEN clearFailed(Machine)
             ELSE clearLocalStorage(resetDataCountUI(clearRendererCache(
                      resetRendererState([Machine EXCEPT !.txq = Append(txq, ClearTx)])))))
    /\ UNCHANGED <<probe, loadedDocs, phase, handle, db, loads, pan>>

\* click on the clear button: clearDatabase up to its await
clearDataClick ==
    /\ UserEvent
    /\ Apply(IF renderer.database = Null
             THEN clearFailed(Machine)
             ELSE [Machine EXCEPT !.txq = Append(txq, ClearTx)])
    /\ UNCHANGED <<probe, loadedDocs, phase, handle, db, loads, pan>>

\* transaction.oncomplete of the clear transaction
clearCompletes ==
    \E i \in DOMAIN txq :
        /\ txq[i].kind = "clear" /\ CanRun(i)
        /\ db' = EmptyStores
        /\ Apply(clearSucceeded([Machine EXCEPT !.txq = Remove(txq, i)]))
        /\ UNCHANGED <<probe, loadedDocs, phase, handle, loads, pan, events>>

\* transaction.onerror of the clear transaction
clearErrors ==
    \E i \in DOMAIN txq :
        /\ txq[i].kind = "clear" /\ CanRun(i)
        /\ Apply(clearFailed([Machine EXCEPT !.txq = Remove(txq, i)]))
        /\ UNCHANGED <<probe, loadedDocs, phase, handle, db, loads, pan, events>>

(* -------------------------------- load -------------------------------- *)

\* resetRendererCache(renderer)
resetRendererCache(m) ==
    [m EXCEPT !.r.cachedWays = {}, !.r.cachedNodes = {}, !.r.cachedRelations = {},
              !.r.cacheReady = FALSE]

\* autoSelectDefaultToggles(renderer)
autoSelectDefaultToggles(m) ==
    IF ~m.r.showNodes /\ ~m.r.showWays /\ ~m.r.showRelations
    THEN [m EXCEPT !.r.showWays = TRUE, !.r.showRelations = TRUE,
                   !.ls.showWays = Stored("true"), !.ls.showRelations = Stored("true")]
    ELSE m

\* a successful load that leaves the cache as it is
loadSucceeded_keepsCache(m) ==
    LET m1 == autoSelectDefaultToggles(m)
        m2 == [m1 EXCEPT !.r.zoomLevel = LoadedZoom,
                         !.r.offsetX = 0, !.r.offsetY = 0,
                         !.r.currentOffsetX = 0, !.r.currentOffsetY = 0,
                         !.ls.zoomLevel = Stored(LoadedZoom),
                         !.ls.offsetX = Stored(0), !.ls.offsetY = Stored(0)]
    IN render(Log(m2, "Data loaded successfully"), "handler")

\* handleFormSubmit after await fetchAndStoreOsmData(url, database)
loadSucceeded(m) ==
    LET m1 == autoSelectDefaultToggles(resetRendererCache(m))
        m2 == [m1 EXCEPT !.r.zoomLevel = LoadedZoom,
                         !.r.offsetX = 0, !.r.offsetY = 0,
                         !.r.currentOffsetX = 0, !.r.currentOffsetY = 0,
                         !.ls.zoomLevel = Stored(LoadedZoom),
                         !.ls.offsetX = Stored(0), !.ls.offsetY = Stored(0)]
        m3 == render(Log(m2, "Data loaded successfully"), "handler")
    IN m3

\* a catch block that also throws the cache away
loadFailed_resets(m, message) ==
    Log([m EXCEPT !.r.cachedWays = {}, !.r.cachedNodes = {}, !.r.cachedRelations = {},
                  !.r.cacheReady = FALSE],
        "Error loading data: " \o message)

\* the catch block of handleFormSubmit
loadFailed(m, message) == Log(m, "Error loading data: " \o message)

\* a guard that looks at the cached nodes only
cacheHoldsData_nodesOnly(r) == Cardinality(r.cachedNodes) > 0

\* the guard of handleFormSubmit
cacheHoldsData(r) ==
    Cardinality(r.cachedNodes) > 0 \/ Cardinality(r.cachedWays) > 0
        \/ Cardinality(r.cachedRelations) > 0

\* handleFormSubmit up to await fetch(url), with the bounding box it reads
handleFormSubmitWith(box) ==
    /\ UserEvent
    /\ IF cacheHoldsData(renderer)
       THEN /\ Apply(Log(Machine, "Clear the current map before loading a new one"))
            /\ loads' = loads
       ELSE IF ~validateInputs(box)
       THEN /\ Apply(Log(Machine, getValidationError(box)))
            /\ loads' = loads
       ELSE /\ Apply(Log(Machine, "Loading data .."))
            /\ loads' = (FreeId(loads) :> [phase |-> "fetching", pending |-> {}]) @@ loads
    /\ UNCHANGED <<probe, loadedDocs, phase, handle, db, pan>>

handleFormSubmit == \E box \in Boxes : handleFormSubmitWith(box)

\* what the network does with the request of a load: the fetch rejects, the
\* status is not a success, or the response has one of the bodies
Responses == {"network error", "not ok"} \cup Docs \cup BadDocs

\* parseAndStoreOSMData(xmlString, database) up to its await: the error it
\* throws, or the transactions of the three storeItems calls it has started
parseAndStoreOSMData(name, database, id) ==
    IF Body(name).kind = "empty"
    THEN Throw("No XML data provided")
    ELSE IF parseOSMData(Body(name)).threw
    THEN Throw("Failed to parse and store OSM data: " \o parseOSMData(Body(name)).error)
    ELSE IF database = Null
    THEN Throw("Failed to parse and store OSM data: Database instance is undefined")
    ELSE Return(<<WriteTx("nodes", id, name), WriteTx("ways", id, name),
                  WriteTx("relations", id, name)>>)

\* the handler of the form after fetchAndStoreOsmData has thrown or has
\* started its transactions
fetchSettled(id, outcome) ==
    IF outcome.threw
    THEN /\ loads' = Without(loads, id)
         /\ Apply(loadFailed(Machine, outcome.error))
    ELSE /\ loads' = [loads EXCEPT ![id] = [phase |-> "storing", pending |-> STORE_NAMES]]
         /\ Apply([Machine EXCEPT !.txq = txq \o outcome.value])

\* fetchAndStoreOsmData from the settling of fetch(url) to the await on the
\* three storeItems calls of parseAndStoreOSMData
fetchSettlesWith(id, response) ==
    /\ loads[id].phase = "fetching"
    /\ fetchSettled(id, IF response = "network error" THEN Throw("Failed to fetch")
                        ELSE IF response = "not ok" THEN Throw("status")
                        ELSE parseAndStoreOSMData(response, renderer.database, id))
    /\ UNCHANGED <<probe, loadedDocs, phase, handle, db, pan, events>>

fetchSettles ==
    \E id \in DOMAIN loads, response \in Responses : fetchSettlesWith(id, response)

\* storeItems: transaction.oncomplete
storeCompletes ==
    \E i \in DOMAIN txq :
        /\ txq[i].kind = "write" /\ CanRun(i)
        /\ LET id == txq[i].owner
               s == txq[i].store
               m == [Machine EXCEPT !.txq = Remove(txq, i)]
               last == id # 0 /\ loads[id].pending = {s}
           IN /\ db' = [db EXCEPT ![s] = PutAll(@, DocRecords(txq[i].doc, s))]
              /\ loads' = IF id = 0 THEN loads
                          ELSE IF last THEN Without(loads, id)
                          ELSE [loads EXCEPT ![id].pending = @ \ {s}]
              /\ Apply(IF last THEN loadSucceeded(m) ELSE m)
              /\ loadedDocs' = IF last THEN loadedDocs \cup {txq[i].doc} ELSE loadedDocs
        /\ UNCHANGED <<probe, phase, handle, pan, events>>

\* storeItems: transaction.onerror; the transaction is aborted, Promise.all
\* rejects and the other two transactions go on
storeErrors ==
    \E i \in DOMAIN txq :
        /\ txq[i].kind = "write" /\ CanRun(i)
        /\ LET id == txq[i].owner
               m == [Machine EXCEPT !.txq = Orphan(Remove(txq, i), id)]
           IN /\ loads' = IF id = 0 THEN loads ELSE Without(loads, id)
              /\ Apply(IF id = 0 THEN m
                       ELSE loadFailed(m, "Failed to parse and store OSM data: Error storing "
                                          \o txq[i].store \o " data"))
        /\ UNCHANGED <<probe, loadedDocs, phase, handle, db, pan, events>>

(* --------------------------- specification ---------------------------- *)

Next ==
    \/ initialiseApp
    \/ initialiseAppFails
    \/ renderFrame
    \/ zoomIn
    \/ zoomOut
    \/ toggleWays
    \/ toggleNodes
    \/ toggleRelations
    \/ onMouseDown
    \/ throttledMouseMove
    \/ onMouseUp
    \/ clearDataClick
    \/ clearCompletes
    \/ clearErrors
    \/ handleFormSubmit
    \/ fetchSettles
    \/ storeCompletes
    \/ storeErrors
    \/ getAllSucceeds
    \/ getAllFails

\* the application as it runs: openDatabase resolves with the database
Spec == Init /\ [][Next]_vars

\* The browser keeps delivering what it owes the page: animation frames, the
\* answer of the network and the outcome of every IndexedDB transaction.
\* Nothing obliges the user to act.
Fairness ==
    /\ WF_vars(renderFrame)
    /\ WF_vars(fetchSettles)
    /\ WF_vars(getAllSucceeds \/ getAllFails)
    /\ WF_vars(storeCompletes \/ storeErrors)
    /\ WF_vars(clearCompletes \/ clearErrors)

FairSpec == Spec /\ Fairness

\* The render scheduler alone: start-up, the loop, panning, zooming and the
\* reads of the renders, under the same fairness.
NextRender ==
    \/ initialiseApp
    \/ renderFrame
    \/ zoomIn
    \/ onMouseDown
    \/ throttledMouseMove
    \/ getAllSucceeds
    \/ getAllFails

FairRenderSpec ==
    /\ Init /\ [][NextRender]_vars
    /\ WF_vars(renderFrame)
    /\ WF_vars(getAllSucceeds \/ getAllFails)

\* the exported set-up functions called with or without a database handle
InitAnyHandle == InitCommon /\ handle \in {Null, Handle} /\ probe = Idle

SpecAnyHandle == InitAnyHandle /\ [][Next]_vars

(* ------------------------------ claims -------------------------------- *)

ClearCount == Cardinality({i \in DOMAIN txq : txq[i].kind = "clear"})

ClearPending == ClearCount > 0

FetchOwners == {txq[i].owner : i \in {j \in DOMAIN txq : txq[j].kind = "read"}}

LoopCallBegun == \E k \in DOMAIN calls : calls[k] = "loop"

CacheNonEmpty ==
    renderer.cachedNodes # {} \/ renderer.cachedWays # {} \/ renderer.cachedRelations # {}

\* C1: at most one call of MapRenderer.render is suspended between its
\* beginning and its completion, whoever began it.
C1_OneRenderInFlight == Cardinality(DOMAIN renders) <= 1

\* C2: at most one fetch-and-cache cycle has getAll requests outstanding on
\* the durable collections, start-up included.
C2_OneFetchCycleInFlight == Cardinality(FetchOwners) <= 1

\* C3: whenever isRendering is true it eventually becomes false again,
\* whether the render succeeds or its fetch fails, for every origin.
C3_RenderingFlagReleased == renderer.isRendering ~> ~renderer.isRendering

\* C4: needsRender set while a render is in flight makes the loop begin a
\* further render once that render has finished (or a clear action gives the
\* flag up).
C4_DirtyWhileRenderingRendered ==
    (renderer.needsRender /\ renderer.isRendering) ~>
        (LoopCallBegun \/ lastLog = "Data cleared successfully")

\* C5: under fair ticking a processed pan update is followed by a completed
\* render pass drawn with the pan offset then current, unless a clear action
\* reset the dirty flag.
C5_PanEventuallyDrawn ==
    renderer.needsRender ~>
        \/ /\ ~canvas.blank
           /\ canvas.ox = renderer.currentOffsetX
           /\ canvas.oy = renderer.currentOffsetY
        \/ lastLog = "Data cleared successfully"

\* C6: when the clear action reports success the three durable collections
\* and the three cached collections are empty, cacheReady is false and the
\* three counters show zero.
C6_ClearedOnSuccess ==
    lastLog = "Data cleared successfully" =>
        /\ db = EmptyStores
        /\ renderer.cachedNodes = {} /\ renderer.cachedWays = {}
        /\ renderer.cachedRelations = {}
        /\ ~renderer.cacheReady
        /\ uiCounts = [nodes |-> 0, ways |-> 0, relations |-> 0]

\* a clear has just reported success
C6_Witness ==
    /\ lastLog = "Data cleared successfully"
    /\ renderer.zoomLevel = ConstructorZoom
    /\ canvas = Blank

\* what a clear action resets
ResetTargets ==
    << renderer.cachedNodes, renderer.cachedWays, renderer.cachedRelations,
       renderer.cacheReady, renderer.zoomLevel, renderer.offsetX, renderer.offsetY,
       renderer.currentOffsetX, renderer.currentOffsetY, uiCounts,
       localStorage.zoomLevel, localStorage.offsetX, localStorage.offsetY >>

\* C7 (as stated): while a clear transaction is pending none of the cached
\* collections, cacheReady, zoom, pan, counters and persisted zoom/pan changes.
C7_FrozenWhileClearPending ==
    [][(ClearPending /\ ClearPending') => UNCHANGED ResetTargets]_vars

\* C7 (amended): the clear action itself resets them only once its
\* transaction has completed: the click that places the transaction changes
\* none of them, and the step that reports the clear is the step in which a
\* clear transaction completes and the durable collections are empty.
C7_ClearResetsOnCompletion ==
    [][ /\ ClearCount' > ClearCount => UNCHANGED ResetTargets
        /\ lastLog' = "Data cleared successfully" =>
            (ClearCount' < ClearCount /\ db' = EmptyStores) ]_vars

\* a clear transaction is pending and the loaded map is still in place
C7_Witness ==
    /\ ClearPending
    /\ renderer.cacheReady
    /\ CacheNonEmpty
    /\ uiCounts.nodes > 0

\* C8: a clear that fails, or finds no database handle, reports the error
\* and leaves the renderer, the counters and the persisted settings as they
\* were.
C8_FailedClearKeepsState ==
    [][ /\ lastLog' = "Error clearing data" =>
            UNCHANGED <<renderer, uiCounts, localStorage, canvas, db>>
        /\ (ClearCount' < ClearCount /\ lastLog' # "Data cleared successfully") =>
            lastLog' = "Error clearing data"
        /\ (clearDataClick /\ renderer.database = Null) =>
            lastLog' = "Error clearing data" ]_vars

\* the clear transaction has failed on a loaded map
C8_Witness ==
    /\ lastLog = "Error clearing data"
    /\ renderer.cacheReady
    /\ CacheNonEmpty
    /\ db # EmptyStores

\* C9: a form submission with a non-empty cached collection is refused:
\* no request, no write, no change of renderer state or persisted setting.
C9_SubmitRefusedOnLoadedMap ==
    [][(handleFormSubmit /\ CacheNonEmpty) =>
            /\ lastLog' = "Clear the current map before loading a new one"
            /\ UNCHANGED <<renderer, localStorage, db, txq, loads, renders,
                           canvas, uiCounts>> ]_vars

\* a submission has been refused on a map that holds ways only
C9_Witness ==
    /\ lastLog = "Clear the current map before loading a new one"
    /\ renderer.cachedNodes = {}
    /\ renderer.cachedWays # {}

\* C10: a form submission made while a clear transaction is pending is not
\* accepted as a load.
C10_NoLoadWhileClearPending ==
    [][(ClearPending /\ handleFormSubmit) => loads' = loads]_vars

\* C11: the cache holds only records of documents whose load has succeeded
\* (parse and all three collection writes); a load that ended in a store
\* failure has none of its records in the cache.
C11_CacheHoldsLoadedDocsOnly ==
    \A r \in renderer.cachedNodes \cup renderer.cachedWays \cup renderer.cachedRelations :
        r.doc \in loadedDocs

\* C12: when the fetch of a load rejects or answers with a non-success
\* status, the load ends with an error reported and is not retried, no
\* transaction is started, the durable store is not written, and the
\* renderer (cache, cacheReady, zoom, offsets, visibility flags), the
\* persisted settings, the canvas and the counters are unchanged.
C12_FetchFailureLeavesState ==
    [][\A id \in DOMAIN loads : \A response \in {"network error", "not ok"} :
          fetchSettlesWith(id, response) =>
              /\ lastLog' \in {"Error loading data: Failed to fetch",
                               "Error loading data: status"}
              /\ loads' = Without(loads, id)
              /\ UNCHANGED <<db, txq, renderer, localStorage, canvas, uiCounts>>]_vars

\* a failed fetch has been reported on a page with a ready cache and a
\* restored zoom level
C12_Witness ==
    /\ lastLog = "Error loading data: Failed to fetch"
    /\ renderer.cacheReady
    /\ renderer.zoomLevel = 25
    /\ loads = <<>>

\* the bodies the claim of C13 calls unparseable: blank, not well-formed, a
\* required attribute missing, or a lat/lon attribute that is not a number
ClaimedUnparseable == BadDocs \cup {"A"}

\* C13: a load whose body is blank, is not well-formed, lacks a required
\* attribute or has a lat/lon that is not a number ends with one error and
\* starts no write transaction on any durable collection.
C13_BadDocumentStoresNothing ==
    [][\A id \in DOMAIN loads : \A response \in ClaimedUnparseable :
          fetchSettlesWith(id, response) =>
              /\ lastLog' # "none"
              /\ loads' = Without(loads, id)
              /\ UNCHANGED <<db, txq>>]_vars
(* ---------------------- C14: a load on its own ------------------------ *)

QueueCarries(kinds) == \E i \in DOMAIN txq : txq[i].kind \in kinds

WritesQueued == {txq[i] : i \in {j \in DOMAIN txq : txq[j].kind = "write"}}

\* one load, waiting for its response, in front of empty stores
LoadFetching ==
    /\ \E id \in DOMAIN loads : DOMAIN loads = {id} /\ loads[id].phase = "fetching"
    /\ db = EmptyStores
    /\ ~QueueCarries({"clear", "write"})

\* the load of document d is the only one, its writes are the only ones
\* queued, and every store is empty until the write of the load commits
LoadStoring(d) ==
    /\ \E id \in DOMAIN loads :
          /\ DOMAIN loads = {id}
          /\ loads[id].phase = "storing"
          /\ WritesQueued = {WriteTx(s, id, d) : s \in loads[id].pending}
          /\ \A s \in STORE_NAMES :
                db[s] = IF s \in loads[id].pending THEN {} ELSE DocRecords(d, s)
    /\ ~QueueCarries({"clear"})

\* the load of document d has succeeded and the render it started is waiting
\* for its reads
LoadRendering(d) ==
    /\ loads = <<>>
    /\ \A s \in STORE_NAMES : db[s] = DocRecords(d, s)
    /\ ~QueueCarries({"clear", "write"})
    /\ ~renderer.cacheReady
    /\ \E id \in DOMAIN renders : renders[id].origin = "handler"

\* the cache holds the entities of document d, one record per id
LoadDrawn(d) ==
    /\ renderer.cacheReady
    /\ renderer.cachedNodes = DocRecords(d, "nodes")
    /\ renderer.cachedWays = DocRecords(d, "ways")
    /\ renderer.cachedRelations = DocRecords(d, "relations")

\* what a step reports when a write of a load or a read of a render fails
FailureLogs ==
    {"Error fetching data"} \cup
    {"Error loading data: Failed to parse and store OSM data: Error storing " \o s \o " data" :
        s \in STORE_NAMES}

\* the step queues a clear, starts another load, or is the failure of a
\* write or of a read
Disturbed ==
    \/ QueueCarries({"clear"})'
    \/ lastLog' = "Loading data .."
    \/ lastLog' \in FailureLogs

\* C14: a load into empty stores that no clear, no other load and no failed
\* transaction disturbs writes exactly the parsed entities of its document,
\* one record per id, and the render it starts ends with cacheReady true and
\* the three cached collections equal to those entities.
C14_LoadedDocumentCached ==
    [][\A d \in Docs :
          /\ (LoadFetching /\ loads' # <<>> /\ \E id \in DOMAIN loads : fetchSettlesWith(id, d))
                => LoadStoring(d)'
          /\ (LoadStoring(d) /\ ~Disturbed) => (LoadStoring(d)' \/ LoadRendering(d)')
          /\ (LoadRendering(d) /\ ~Disturbed) => (LoadRendering(d)' \/ LoadDrawn(d)')]_vars

\* the document with two ways of one id has been loaded alone and is cached
C14_Witness ==
    /\ LoadDrawn("B")
    /\ loadedDocs = {"B"}
    /\ uiCounts = [nodes |-> 0, ways |-> 1, relations |-> 0]
    /\ ~canvas.blank

(* ------------------- direct calls: storeItems ------------------------- *)

\* everything but probe
world == <<phase, handle, renderer, localStorage, db, txq, renders, loads,
           canvas, uiCounts, pan, events, lastLog, calls, loadedDocs>>

MaxItems == 3

\* what transform(item) does: it returns a record with the key of the item,
\* throws, returns undefined, or returns something put() refuses (no key)
TransformOutcomes == {"record", "throws", "undefined", "unkeyed"}

Items == [id : {"1", "2"}, out : TransformOutcomes]

ItemSeqs == UNION {[1..n -> Items] : n \in 0..MaxItems}

\* a loop that gives up at the first transform that throws
RECURSIVE storeLoop_stopsAtThrow(_, _, _)
storeLoop_stopsAtThrow(items, i, puts) ==
    IF i > Len(items) THEN Return(puts)
    ELSE IF items[i].out = "throws"
    THEN [threw |-> TRUE, error |-> "transformError", value |-> puts]
    ELSE IF items[i].out = "undefined" THEN storeLoop_stopsAtThrow(items, i + 1, puts)
    ELSE IF items[i].out = "unkeyed"
    THEN [threw |-> TRUE, error |-> "DataError", value |-> puts]
    ELSE storeLoop_stopsAtThrow(items, i + 1,
                                Append(puts, [id |-> items[i].id, doc |-> "call", at |-> i]))

\* for (const item of items) of storeItems, from item i on: the records put
\* so far, and whether objectStore.put has thrown
RECURSIVE storeLoop(_, _, _)
storeLoop(items, i, puts) ==
    IF i > Len(items) THEN Return(puts)
    ELSE IF items[i].out \in {"throws", "undefined"} THEN storeLoop(items, i + 1, puts)
    ELSE IF items[i].out = "unkeyed"
    THEN [threw |-> TRUE, error |-> "DataError", value |-> puts]
    ELSE storeLoop(items, i + 1, Append(puts, [id |-> items[i].id, doc |-> "call", at |-> i]))

\* objectStore.put(record), one record after the other
RECURSIVE putEach(_, _)
putEach(store, records) ==
    IF records = <<>> THEN store
    ELSE putEach(PutAll(store, {Head(records)}), Tail(records))

\* storeItems up to its await, given what its loop did
storeItemsLooped(items, database, store, looped) ==
    [fn |-> "storeItems", items |-> items, database |-> database, store |-> store,
     puts |-> looped.value, tx |-> "open",
     call |-> IF looped.threw THEN "rejected" ELSE "awaiting",
     error |-> IF looped.threw THEN "Error storing nodes data: " \o looped.error ELSE "none"]

\* storeItems("nodes", items, transform, database) up to its await, or to the
\* error it throws
storeItems(items, database, store) ==
    IF database = Null
    THEN [fn |-> "storeItems", items |-> items, database |-> database, store |-> store,
          puts |-> <<>>, tx |-> "none", call |-> "rejected",
          error |-> "Database instance is undefined"]
    ELSE storeItemsLooped(items, database, store, storeLoop(items, 1, <<>>))

\* a call of storeItems on a collection that is empty or holds one record
callStoreItems ==
    /\ probe = Idle
    /\ \E items \in ItemSeqs, database \in {Null, Handle},
          store \in {{}, {[id |-> "1", doc |-> "A", at |-> 1]}} :
          probe' = storeItems(items, database, store)
    /\ UNCHANGED world

\* transaction.oncomplete: the puts are durable and the await returns
transactionCompletes ==
    /\ probe # Idle /\ probe.fn = "storeItems" /\ probe.tx = "open"
    /\ probe' = [probe EXCEPT !.tx = "committed",
                              !.store = putEach(@, probe.puts),
                              !.call = IF @ = "awaiting" THEN "resolved" ELSE @]
    /\ UNCHANGED world

\* transaction.onerror: nothing is written and the await throws into the
\* outer catch
transactionErrors ==
    /\ probe # Idle /\ probe.fn = "storeItems" /\ probe.tx = "open"
    /\ probe' = [probe EXCEPT !.tx = "aborted",
                              !.call = IF @ = "awaiting" THEN "rejected" ELSE @,
                              !.error = IF probe.call = "awaiting"
                                        THEN "Error storing nodes data: transaction" ELSE @]
    /\ UNCHANGED world

\* the caller has seen the settled call
storeItemsReturns ==
    /\ probe # Idle /\ probe.fn = "storeItems" /\ probe.tx # "open"
    /\ probe' = Idle
    /\ UNCHANGED world

(* ------------------- direct calls: the render pass -------------------- *)

\* styles.zIndex of the rules of renderRules, in the order of the table; the
\* last rule is the default one, whose condition is always true
ZIndexes ==
    << 3, 4, 3, 2, 3, 2, 2, 2, 2, 2, 2, 2, 3, 3, 3, 2, 2, 2, 3, 3, 1, 2, 1,
       1, 1, 2, 2, 2, 2, 2, 2, 2, 2, 1, 2, 4, 4, 4, 4, 3, 2, 2, 3, 3, 3, 0 >>

DefaultRule == Len(ZIndexes)

\* a lookup that returns the last rule whose condition holds
getRenderRule_lastMatch(element) ==
    CHOOSE i \in element.matches \cup {DefaultRule} :
        \A j \in element.matches \cup {DefaultRule} : i >= j

\* renderRules.find(rule => rule.condition(element)): the first rule of the
\* table among those whose condition the tags of the element satisfy
getRenderRule(element) ==
    CHOOSE i \in element.matches \cup {DefaultRule} :
        \A j \in element.matches \cup {DefaultRule} : i <= j

zIndexOf(element) == ZIndexes[getRenderRule(element)]

\* the condition of each rule of renderRules: a key some tag has, a key and
\* a value some tag has, or nothing at all (the default rule)
Conditions ==
    << <<"building">>, <<"highway", "footway">>, <<"highway", "pedestrian">>,
       <<"landuse", "forest">>, <<"landuse", "grass">>, <<"landuse", "residential">>,
       <<"landuse", "farmyard">>, <<"landuse", "landfill">>,
       <<"landuse", "plant_nursery">>, <<"landuse", "military">>,
       <<"landuse", "recreation_ground">>, <<"amenity", "parking">>,
       <<"leisure", "pitch">>, <<"leisure", "garden">>, <<"natural", "wood">>,
       <<"natural", "grassland">>, <<"natural", "wetland">>, <<"natural", "scrub">>,
       <<"natural", "water">>, <<"waterway", "stream">>, <<"landuse", "retail">>,
       <<"landuse", "construction">>, <<"landuse", "commercial">>,
       <<"landuse", "industrial">>, <<"man_made", "wastewater_plant">>,
       <<"landuse", "allotments">>, <<"landuse", "religious">>, <<"leisure", "park">>,
       <<"leisure", "golf_course">>, <<"landuse", "farmland">>,
       <<"landuse", "quarry">>, <<"landuse", "meadow">>, <<"natural", "sand">>,
       <<"amenity">>, <<"landuse", "cemetery">>, <<"highway", "motorway">>,
       <<"highway", "motorway_link">>, <<"highway", "primary">>,
       <<"highway", "secondary">>, <<"highway", "tertiary">>, <<"highway", "service">>,
       <<"highway", "unclassified">>, <<"highway", "residential">>,
       <<"railway", "rail">>, <<"highway", "trunk">>, <<>> >>

\* the strokeStyle of each rule
StrokeStyles ==
    << "#c4b7a9", "#fa8072", "#aaaaad", "#95a986", "#abbb9d", "#d0cfce", "#dbc29b",
       "#b39856", "#518f45", "#dcc6c0", "#9eada1", "#d9cbc6", "#6bcea5", "#8ab773",
       "#93b685", "#7e8577", "#76b588", "#b0be93", "#87a8e0", "#87a8e0", "#ebbbb5",
       "#919a87", "#ddc4c3", "#d2c2ce", "#d2c2ce", "#b6cfab", "#9a9a9a", "#8fd794",
       "#add19e", "#dbddc4", "#8e8c8c", "#97a886", "#e7cfc3", "#e1dac6", "#88b78e",
       "#e892a2", "#e892a2", "#fcd6a4", "#f7fabf", "#fdfdfd", "#fdfdfd", "#fdfdfd",
       "#fdfdfd", "#707070", "#f9b29c", "" >>

\* rule.condition(element): element.tags.some(...) with the key, or the key
\* and the value, of the rule; () => true for the default rule
condition(i, tags) ==
    \/ Len(Conditions[i]) = 0
    \/ /\ Len(Conditions[i]) = 1
       /\ \E t \in DOMAIN tags : tags[t].key = Conditions[i][1]
    \/ /\ Len(Conditions[i]) = 2
       /\ \E t \in DOMAIN tags :
             tags[t].key = Conditions[i][1] /\ tags[t].value = Conditions[i][2]

\* rules that look at the key of a tag only
matchesOf_keyOnly(tags) ==
    {i \in DOMAIN Conditions :
        \/ Len(Conditions[i]) = 0
        \/ \E t \in DOMAIN tags : tags[t].key = Conditions[i][1]}

\* the rules whose condition the tags of an element satisfy
matchesOf(tags) == {i \in DOMAIN Conditions : condition(i, tags)}

\* way.nodes.map(ref => nodesMap.get(ref)).filter(Boolean).length
resolvable(refs, nodes) ==
    Cardinality({i \in DOMAIN refs : \E k \in DOMAIN nodes : nodes[k] = refs[i]})

\* the rules whose styles say shouldFill: true
FillRules == ((1..35) \ {2}) \cup {44}

\* way.nodes.map(ref => nodesMap.get(ref)).filter(Boolean): the references
\* that name a cached node, in their order
RECURSIVE resolved(_, _)
resolved(refs, nodes) ==
    IF refs = <<>> THEN <<>>
    ELSE (IF \E k \in DOMAIN nodes : nodes[k] = Head(refs) THEN <<Head(refs)>> ELSE <<>>)
         \o resolved(Tail(refs), nodes)

\* isPathClosed: the first and the last point have the same coordinates;
\* the cached nodes of a scene lie at different places
isPathClosed(points) == points[1] = points[Len(points)]

\* the path of one way and its fill and stroke, with the styles of a rule:
\* the fill needs shouldFill and a closed path
strokePath(rule, points) ==
    [rule |-> rule, points |-> Len(points), fill |-> rule \in FillRules /\ isPathClosed(points)]

\* elements.filter(element => getRenderRule(element)?.styles.zIndex === zIndex)
RECURSIVE atZIndex(_, _)
atZIndex(elements, zIndex) ==
    IF elements = <<>> THEN <<>>
    ELSE (IF zIndexOf(Head(elements)) = zIndex THEN <<Head(elements)>> ELSE <<>>)
         \o atZIndex(Tail(elements), zIndex)

\* a drawWays that a way with fewer than two points ends
RECURSIVE drawWays_stopsAtShort(_, _)
drawWays_stopsAtShort(ways, nodes) ==
    IF ways = <<>> THEN <<>>
    ELSE IF resolvable(Head(ways).nodes, nodes) < 2 THEN <<>>
    ELSE <<[kind |-> "way", id |-> Head(ways).id]
           @@ strokePath(getRenderRule(Head(ways)), resolved(Head(ways).nodes, nodes))>>
         \o drawWays_stopsAtShort(Tail(ways), nodes)

\* drawWays: the ways it is given all have one zIndex, so its stable sort
\* keeps their order; a way with fewer than two resolvable nodes is left out
RECURSIVE drawWays(_, _)
drawWays(ways, nodes) ==
    IF ways = <<>> THEN <<>>
    ELSE (IF resolvable(Head(ways).nodes, nodes) < 2 THEN <<>>
          ELSE <<[kind |-> "way", id |-> Head(ways).id]
                 @@ strokePath(getRenderRule(Head(ways)), resolved(Head(ways).nodes, nodes))>>)
         \o drawWays(Tail(ways), nodes)

\* ways.find(w => w.id === member.ref) finds a way with two resolvable nodes
memberDrawn(member, ways, nodes) ==
    /\ member.type = "way"
    /\ \E i \in DOMAIN ways :
          /\ ways[i].id = member.ref
          /\ \A j \in 1..(i - 1) : ways[j].id # member.ref
          /\ resolvable(ways[i].nodes, nodes) >= 2

\* ways.find(w => w.id === member.ref)
findWay(ref, ways) ==
    ways[CHOOSE i \in DOMAIN ways :
            ways[i].id = ref /\ \A j \in 1..(i - 1) : ways[j].id # ref]

\* a forEach over the members that a member it cannot draw ends
RECURSIVE drawMembers_stopsAtSkipped(_, _, _, _, _)
drawMembers_stopsAtSkipped(id, rule, members, ways, nodes) ==
    IF members = <<>> THEN <<>>
    ELSE IF ~memberDrawn(Head(members), ways, nodes) THEN <<>>
    ELSE <<[kind |-> "relation", id |-> id, member |-> Head(members).ref]
           @@ strokePath(rule, resolved(findWay(Head(members).ref, ways).nodes, nodes))>>
         \o drawMembers_stopsAtSkipped(id, rule, Tail(members), ways, nodes)

\* members drawn with the styles of the rule of the member way
RECURSIVE drawMembers_ownStyle(_, _, _, _, _)
drawMembers_ownStyle(id, rule, members, ways, nodes) ==
    IF members = <<>> THEN <<>>
    ELSE (IF memberDrawn(Head(members), ways, nodes)
          THEN <<[kind |-> "relation", id |-> id, member |-> Head(members).ref]
                 @@ strokePath(getRenderRule(findWay(Head(members).ref, ways)),
                               resolved(findWay(Head(members).ref, ways).nodes, nodes))>>
          ELSE <<>>)
         \o drawMembers_ownStyle(id, rule, Tail(members), ways, nodes)

\* relation.members.forEach of drawRelations, after applyRelationStyles has
\* set the styles of the rule of the relation
RECURSIVE drawMembers(_, _, _, _, _)
drawMembers(id, rule, members, ways, nodes) ==
    IF members = <<>> THEN <<>>
    ELSE (IF memberDrawn(Head(members), ways, nodes)
          THEN <<[kind |-> "relation", id |-> id, member |-> Head(members).ref]
                 @@ strokePath(rule, resolved(findWay(Head(members).ref, ways).nodes, nodes))>>
          ELSE <<>>)
         \o drawMembers(id, rule, Tail(members), ways, nodes)

\* drawRelations, on relations of one zIndex
RECURSIVE drawRelations(_, _, _)
drawRelations(relations, ways, nodes) ==
    IF relations = <<>> THEN <<>>
    ELSE drawMembers(Head(relations).id, getRenderRule(Head(relations)),
                     Head(relations).members, ways, nodes)
         \o drawRelations(Tail(relations), ways, nodes)

\* drawNodes: one arc per node
drawNodes(nodes) == [i \in DOMAIN nodes |-> [kind |-> "point", id |-> nodes[i]]]

\* a level that draws its ways before its relations
levelOps_waysFirst(r, scene, zIndex) ==
    (IF r.showWays THEN drawWays(atZIndex(scene.ways, zIndex), scene.nodes) ELSE <<>>)
    \o (IF r.showRelations
        THEN drawRelations(atZIndex(scene.relations, zIndex), scene.ways, scene.nodes)
        ELSE <<>>)

\* a level that draws its ways only when the relations are shown
levelOps_waysNeedRelations(r, scene, zIndex) ==
    IF r.showRelations
    THEN drawRelations(atZIndex(scene.relations, zIndex), scene.ways, scene.nodes)
         \o (IF r.showWays THEN drawWays(atZIndex(scene.ways, zIndex), scene.nodes)
             ELSE <<>>)
    ELSE <<>>

\* one round of the zIndex loop of render
levelOps(r, scene, zIndex) ==
    (IF r.showRelations
     THEN drawRelations(atZIndex(scene.relations, zIndex), scene.ways, scene.nodes)
     ELSE <<>>)
    \o (IF r.showWays THEN drawWays(atZIndex(scene.ways, zIndex), scene.nodes) ELSE <<>>)

\* a pass whose loop starts at zIndex 0
renderPass_fromZero(r, scene) ==
    levelOps(r, scene, 0) \o levelOps(r, scene, 1) \o levelOps(r, scene, 2)
    \o levelOps(r, scene, 3) \o levelOps(r, scene, 4)
    \o (IF r.showNodes THEN drawNodes(scene.nodes) ELSE <<>>)

\* a pass whose loop ends at zIndex 3
renderPass_threeLevels(r, scene) ==
    levelOps(r, scene, 1) \o levelOps(r, scene, 2) \o levelOps(r, scene, 3)
    \o (IF r.showNodes THEN drawNodes(scene.nodes) ELSE <<>>)

\* the try block of render: the draw operations of one pass, in order
renderPass(r, scene) ==
    levelOps(r, scene, 1) \o levelOps(r, scene, 2) \o levelOps(r, scene, 3)
    \o levelOps(r, scene, 4)
    \o (IF r.showNodes THEN drawNodes(scene.nodes) ELSE <<>>)

Flags == [showNodes : BOOLEAN, showWays : BOOLEAN, showRelations : BOOLEAN]

\* the rules the tags of an element can satisfy: none, any one rule, or a
\* footway rule together with a later rule of another level
Matches == {{}} \cup {{i} : i \in 1..(DefaultRule - 1)} \cup {{2, 21}}

\* the cached nodes "1" and "2"; way "1" with any tags and with two nodes,
\* with one of them unknown or with unknown nodes only; possibly a closed
\* way "2"
WayNodes == {<<"1", "2">>, <<"1", "9">>, <<"9">>}

SceneWays ==
    {<<w>> : w \in [id : {"1"}, matches : Matches, nodes : WayNodes]}
    \cup {<<w, v>> : w \in [id : {"1"}, matches : Matches, nodes : WayNodes],
                     v \in [id : {"2"}, matches : {{}, {21}, {36}},
                            nodes : {<<"2", "1", "2">>}]}

Member(type, ref) == [type |-> type, ref |-> ref]

\* no relation, relation "1", or relations "1" and "2"
SceneRelations ==
    {<<>>}
    \cup {<<x>> : x \in [id : {"1"}, matches : {{}, {1}, {21}, {36}},
                         members : {<<Member("way", "1")>>,
                                    <<Member("way", "2"), Member("node", "1"),
                                      Member("way", "7"), Member("way", "1")>>,
                                    <<Member("way", "7")>>}]}
    \cup {<<x, y>> : x \in [id : {"1"}, matches : {{}, {1}, {21}, {36}},
                            members : {<<Member("way", "1")>>}],
                     y \in [id : {"2"}, matches : {{23}},
                            members : {<<Member("way", "1")>>}]}

Scenes == [nodes : {<<"1", "2">>}, ways : SceneWays, relations : SceneRelations]

\* one pass of render over a cache, with its three visibility flags
callRender ==
    /\ probe = Idle
    /\ \E r \in Flags, scene \in Scenes :
          probe' = [fn |-> "render", r |-> r, scene |-> scene, ops |-> renderPass(r, scene)]
    /\ UNCHANGED world

renderReturns ==
    /\ probe # Idle /\ probe.fn = "render"
    /\ probe' = Idle
    /\ UNCHANGED world

\* a tag for the condition of each rule, and three tags no rule names
Tag(key, value) == [key |-> key, value |-> value]

Tags ==
    {Tag(Conditions[i][1], IF Len(Conditions[i]) = 2 THEN Conditions[i][2] ELSE "yes") :
        i \in 1..(DefaultRule - 1)}
    \cup {Tag("highway", "road"), Tag("name", "x"), Tag("parking", "amenity")}

\* the tag lists of an element: no tag, one tag, two tags
TagLists == {<<>>} \cup {<<t>> : t \in Tags} \cup {<<t, u>> : t \in Tags, u \in Tags}

\* getRenderRule called for an element with these tags
callGetRenderRule ==
    /\ probe = Idle
    /\ \E tags \in TagLists :
          probe' = [fn |-> "getRenderRule", tags |-> tags,
                    rule |-> getRenderRule([matches |-> matchesOf(tags)]), again |-> 0]
    /\ UNCHANGED world

\* getRenderRule called once more for the same element
callGetRenderRuleAgain ==
    /\ probe # Idle /\ probe.fn = "getRenderRule" /\ probe.again = 0
    /\ probe' = [probe EXCEPT !.again = getRenderRule([matches |-> matchesOf(probe.tags)])]
    /\ UNCHANGED world

getRenderRuleReturns ==
    /\ probe # Idle /\ probe.fn = "getRenderRule" /\ probe.again # 0
    /\ probe' = Idle
    /\ UNCHANGED world

(* ------------------------- buildNodesMap ------------------------------ *)

\* the width and the height attribute of the canvas element
CanvasWidth == 1520

CanvasHeight == 930

\* trimPercentage = 0.02: one value in fifty is cut at either end
TrimEvery == 50

\* a double: a fraction n / d with d > 0, Infinity or -Infinity (n its
\* sign), or NaN
Finite(n, d) == [k |-> "finite", n |-> n, d |-> d]

Infinite(s) == [k |-> "Infinity", n |-> s, d |-> 0]

NotANumber == [k |-> "NaN", n |-> 0, d |-> 0]

sign(p) == IF p.n > 0 THEN 1 ELSE IF p.n < 0 THEN -1 ELSE 0

\* a / b of two numbers that are whole
divide(a, b) ==
    IF b > 0 THEN Finite(a, b)
    ELSE IF b < 0 THEN Finite(-a, -b)
    ELSE IF a = 0 THEN NotANumber
    ELSE Infinite(IF a > 0 THEN 1 ELSE -1)

lessEq(p, q) ==
    IF p.k = "finite" /\ q.k = "finite" THEN p.n * q.d <= q.n * p.d
    ELSE IF p.k = "finite" THEN q.n > 0
    ELSE IF q.k = "finite" THEN p.n < 0
    ELSE p.n <= q.n

\* Math.min of two doubles
MathMin(p, q) ==
    IF p.k = "NaN" \/ q.k = "NaN" THEN NotANumber
    ELSE IF lessEq(p, q) THEN p ELSE q

\* p * q
times(p, q) ==
    IF p.k = "NaN" \/ q.k = "NaN" THEN NotANumber
    ELSE IF p.k = "finite" /\ q.k = "finite" THEN Finite(p.n * q.n, p.d * q.d)
    ELSE IF sign(p) * sign(q) = 0 THEN NotANumber
    ELSE Infinite(sign(p) * sign(q))

\* p + q
plus(p, q) ==
    IF p.k = "NaN" \/ q.k = "NaN" THEN NotANumber
    ELSE IF p.k = "finite" /\ q.k = "finite" THEN Finite(p.n * q.d + q.n * p.d, p.d * q.d)
    ELSE IF p.k = "finite" THEN q
    ELSE IF q.k = "finite" THEN p
    ELSE IF p.n = q.n THEN p
    ELSE NotANumber

\* values.sort((a, b) => a - b)[index]
sortedAt(values, index) ==
    CHOOSE v \in {values[i] : i \in DOMAIN values} :
        /\ Cardinality({i \in DOMAIN values : values[i] < v}) <= index
        /\ index < Cardinality({i \in DOMAIN values : values[i] <= v})

\* Math.floor(trimPercentage * length) and Math.ceil((1 - trimPercentage) * length)
\* a box that trims nothing
startIndex_untrimmed(length) == 0

startIndex(length) == length \div TrimEvery

endIndex(length) == length - (length \div TrimEvery)

latitudes(nodes) == [i \in DOMAIN nodes |-> nodes[i].lat]

longitudes(nodes) == [i \in DOMAIN nodes |-> nodes[i].lon]

\* minLat, maxLat, minLon, maxLon of buildNodesMap, of one node at least
trimmedBox(nodes) ==
    [minLat |-> sortedAt(latitudes(nodes), startIndex(Len(nodes))),
     maxLat |-> sortedAt(latitudes(nodes), endIndex(Len(nodes)) - 1),
     minLon |-> sortedAt(longitudes(nodes), startIndex(Len(nodes))),
     maxLon |-> sortedAt(longitudes(nodes), endIndex(Len(nodes)) - 1)]

\* scale = Math.min(width / boundingBoxWidth, height / boundingBoxHeight) * zoomLevel
scaleOf(r, box) ==
    times(MathMin(divide(CanvasWidth, box.maxLon - box.minLon),
                  divide(CanvasHeight, box.maxLat - box.minLat)),
          Finite(r.zoomLevel, 1))

\* the entry of one node: x and y of the forEach of buildNodesMap (the tags
\* are carried over as they are)
projected(r, node, box, scale) ==
    [id |-> node.id,
     x |-> plus(times(Finite(2 * node.lon - box.minLon - box.maxLon, 2), scale),
                Finite(CanvasWidth + 2 * r.currentOffsetX, 2)),
     y |-> plus(times(times(Finite(2 * node.lat - box.minLat - box.maxLat, 2), scale),
                      Finite(8, 5)),
                Finite(CanvasHeight + 2 * r.currentOffsetY, 2))]

\* nodesMap.set(node.id, ...) in the order of the nodes: the last node of an
\* id is the one the map keeps
lastWithId(nodes, id) ==
    nodes[CHOOSE i \in DOMAIN nodes :
             nodes[i].id = id /\ \A j \in DOMAIN nodes : nodes[j].id = id => j <= i]

\* a map that has the nodes inside the trimmed box only
nodesMap_insideBox(r, nodes, box) ==
    [id \in {nodes[i].id : i \in {j \in DOMAIN nodes :
                                     /\ nodes[j].lat >= box.minLat /\ nodes[j].lat <= box.maxLat
                                     /\ nodes[j].lon >= box.minLon /\ nodes[j].lon <= box.maxLon}}
        |-> projected(r, lastWithId(nodes, id), box, scaleOf(r, box))]

nodesMap(r, nodes, box) ==
    [id \in {nodes[i].id : i \in DOMAIN nodes}
        |-> projected(r, lastWithId(nodes, id), box, scaleOf(r, box))]

\* buildNodesMap; without nodes the box is of undefined values and the
\* forEach sets nothing
buildNodesMap(r, nodes) ==
    IF nodes = <<>> THEN <<>> ELSE nodesMap(r, nodes, trimmedBox(nodes))

\* the cached nodes of a call, in whole degrees: two far nodes and the others
\* close together, all at one place, all on one meridian, all on one
\* parallel, or all at one place but the first
NodeShapes == {"spread", "point", "column", "row", "outlier"}

NodeCounts == {0, 1, 2, 3, 49, 50, 51, 100}

NodeAt(shape, i) ==
    [id |-> ToString(i),
     lat |-> CASE shape = "spread" -> IF i = 1 THEN 60 ELSE IF i = 2 THEN 40 ELSE 50 + (i % 3)
               [] shape = "column" -> 50 + (i % 3)
               [] shape = "outlier" -> IF i = 1 THEN 60 ELSE 51
               [] OTHER -> 51,
     lon |-> CASE shape = "spread" -> IF i = 1 THEN 10 ELSE IF i = 2 THEN -10 ELSE i % 3
               [] shape = "row" -> i % 3
               [] shape = "outlier" -> IF i = 1 THEN 10 ELSE 0
               [] OTHER -> 0]

NodeList(shape, n) == [i \in 1..n |-> NodeAt(shape, i)]

Cameras ==
    [zoomLevel : {MIN_ZOOM_LEVEL, DefaultZoom}, currentOffsetX : {0, -30},
     currentOffsetY : {0, 12}]

callBuildNodesMap ==
    /\ probe = Idle
    /\ \E r \in Cameras, shape \in NodeShapes, n \in NodeCounts :
          probe' = [fn |-> "buildNodesMap", r |-> r, nodes |-> NodeList(shape, n),
                    map |-> buildNodesMap(r, NodeList(shape, n))]
    /\ UNCHANGED world

buildNodesMapReturns ==
    /\ probe # Idle /\ probe.fn = "buildNodesMap"
    /\ probe' = Idle
    /\ UNCHANGED world

(* -------------- direct calls: the canvas calls of drawWays ------------- *)

\* the rules whose styles say hasCasing: true
CasingRules == 36..45

\* styles.lineWidth of a rule; a rule without one gets the default of the
\* destructuring in drawWays
lineWidth(rule) ==
    CASE rule = 36 -> 12 [] rule = 37 -> 6 [] rule = 38 -> 10 [] rule = 39 -> 8
      [] rule = 40 -> 6 [] rule = 41 -> 2 [] rule = 42 -> 2 [] rule = 43 -> 4
      [] rule = 44 -> 2 [] rule = 45 -> 8 [] OTHER -> 1

\* styles.casingStrokeStyle ?? "#333"
casingStrokeStyle(rule) ==
    CASE rule \in {36, 37} -> "#de3d72" [] rule = 38 -> "#c49540"
      [] rule = 39 -> "#bcc46f" [] rule \in 40..43 -> "#a4a3a3"
      [] rule = 44 -> "#707070" [] rule = 45 -> "#cc583a" [] OTHER -> "#333"

\* the fillStyle of each rule
FillStyles ==
    << "#d9d0c9", "", "#dddde8", "#add19e", "#cdebb0", "#e0dfdf", "#f5dcba",
       "#b6b592", "#aedfa3", "#f3e3dd", "#dffce2", "#eeeeee", "#88e0be", "#cdebb0",
       "#add19e", "#cdebb0", "#cdebb0", "#c8d7ab", "#aad3df", "#aad3df", "#ffd6d1",
       "#c7c7b4", "#f2dad9", "#ebdbe8", "#ebdbe8", "#c9e1bf", "#d0d0d0", "#c8facc",
       "#def6c0", "#eef0d5", "#c5c3c3", "#cdebb0", "#f5e9c6", "#ffffe5", "#aacbaf",
       "", "", "", "", "", "", "",
       "", "#707070", "", "" >>

\* way.nodes.map(ref => nodesMap.get(ref)).filter(Boolean), on a nodesMap
\* that holds the projected point of each node
RECURSIVE pointsOf(_, _)
pointsOf(refs, projection) ==
    IF refs = <<>> THEN <<>>
    ELSE (IF Head(refs) \in DOMAIN projection THEN <<projection[Head(refs)]>> ELSE <<>>)
         \o pointsOf(Tail(refs), projection)

\* ctx.stroke() with the lineWidth and strokeStyle set before it; widths are
\* in tenths, so that lineWidth * 1.2 is 12 tenths for each unit
stroke(tenths, style) == [call |-> "stroke", lineWidth |-> tenths, strokeStyle |-> style]

\* the canvas calls for one way that stroke first and fill afterwards
pathCalls_fillLast(rule, points) ==
    (IF rule \in CasingRules
     THEN <<stroke(lineWidth(rule) * 12, casingStrokeStyle(rule))>> ELSE <<>>)
    \o <<stroke(lineWidth(rule) * 10, StrokeStyles[rule])>>
    \o (IF rule \in FillRules /\ isPathClosed(points)
        THEN <<[call |-> "closePath"], [call |-> "fill", fillStyle |-> FillStyles[rule]]>>
        ELSE <<>>)

\* the canvas calls of drawWays for one way with two points or more: the
\* casing, the fill of a closed path, the stroke
pathCalls(rule, points) ==
    (IF rule \in CasingRules
     THEN <<stroke(lineWidth(rule) * 12, casingStrokeStyle(rule))>> ELSE <<>>)
    \o (IF rule \in FillRules /\ isPathClosed(points)
        THEN <<[call |-> "closePath"], [call |-> "fill", fillStyle |-> FillStyles[rule]]>>
        ELSE <<>>)
    \o <<stroke(lineWidth(rule) * 10, StrokeStyles[rule])>>

\* ways.map(..).sort(by zIndex): the sort is stable
sortedWays(ways) ==
    atZIndex(ways, 0) \o atZIndex(ways, 1) \o atZIndex(ways, 2)
    \o atZIndex(ways, 3) \o atZIndex(ways, 4)

\* sortedWays.forEach(...): the canvas calls made for each way that is drawn
RECURSIVE forEachWay(_, _)
forEachWay(ways, projection) ==
    IF ways = <<>> THEN <<>>
    ELSE (IF Len(pointsOf(Head(ways).nodes, projection)) < 2 THEN <<>>
          ELSE <<[way |-> Head(ways).id,
                  calls |-> pathCalls(getRenderRule(Head(ways)),
                                      pointsOf(Head(ways).nodes, projection))]>>)
         \o forEachWay(Tail(ways), projection)

\* drawWays(ctx, canvasHeight, ways, nodesMap), as the calls on ctx
drawWaysCalls(ways, projection) == forEachWay(sortedWays(ways), projection)

\* projected nodes: "3" lies where "1" lies, "4" above "1", "2" beside it
Projected ==
    ("1" :> [x |-> 0, y |-> 0]) @@ ("2" :> [x |-> 1, y |-> 0])
    @@ ("3" :> [x |-> 0, y |-> 0]) @@ ("4" :> [x |-> 0, y |-> 1])

MaxRefs == 3

\* node references of a way, "9" naming no node of the map
RefLists == UNION {[1..n -> {"1", "2", "3", "4", "9"}] : n \in 0..MaxRefs}

\* a way with no rule, a filled rule, an unfilled one, a cased one or the
\* cased and filled one; alone or after a closed way of a lower level
PathWays ==
    LET first == [id : {"1"}, matches : {{}, {1}, {2}, {36}, {44}}, nodes : RefLists]
    IN {<<w>> : w \in first}
       \cup {<<w, [id |-> "2", matches |-> {21}, nodes |-> <<"1", "2", "1">>]>> :
               w \in first}

callDrawWays ==
    /\ probe = Idle
    /\ \E ways \in PathWays :
          probe' = [fn |-> "drawWays", ways |-> ways, projection |-> Projected,
                    drawn |-> drawWaysCalls(ways, Projected)]
    /\ UNCHANGED world

drawWaysReturns ==
    /\ probe # Idle /\ probe.fn = "drawWays"
    /\ probe' = Idle
    /\ UNCHANGED world

NextCalls ==
    \/ callStoreItems
    \/ transactionCompletes
    \/ transactionErrors
    \/ storeItemsReturns
    \/ callRender
    \/ renderReturns
    \/ callGetRenderRule
    \/ callGetRenderRuleAgain
    \/ getRenderRuleReturns
    \/ callBuildNodesMap
    \/ buildNodesMapReturns
    \/ callDrawWays
    \/ drawWaysReturns

\* the calls are made on a fresh page
CallInit == Init /\ localStorage = FreshSettings /\ db = EmptyStores

CallSpec == CallInit /\ [][NextCalls]_vars

(* ------------------------------- C15 ---------------------------------- *)

\* C15: when the transaction of a storeItems call commits and no put was
\* refused, the call resolves, every item whose transform returned a record
\* is in the collection (under its id, the item put last for that id), and no
\* item whose transform threw or returned undefined is, however many such
\* items the call had and wherever they stood.
C15_SkippedItemsAlone ==
    (probe # Idle /\ probe.fn = "storeItems" /\ probe.tx = "committed"
        /\ \A i \in DOMAIN probe.items : probe.items[i].out # "unkeyed")
    => /\ probe.call = "resolved"
       /\ \A i \in DOMAIN probe.items :
             probe.items[i].out = "record"
             => \E r \in probe.store :
                   /\ r.id = probe.items[i].id /\ r.doc = "call" /\ r.at >= i
                   /\ probe.items[r.at] = probe.items[i]
       /\ \A r \in probe.store : r.doc = "call" => probe.items[r.at].out = "record"
       /\ \A r \in probe.store :
             r.doc = "A" => \A i \in DOMAIN probe.items :
                               probe.items[i].out = "record" => probe.items[i].id # r.id

\* a throwing and an undefined transform before a record: the record is
\* stored and the call has resolved
C15_Witness ==
    /\ probe # Idle /\ probe.fn = "storeItems"
    /\ probe.items = <<[id |-> "1", out |-> "throws"], [id |-> "2", out |-> "undefined"],
                       [id |-> "2", out |-> "record"]>>
    /\ probe.call = "resolved"
    /\ probe.store = {[id |-> "1", doc |-> "A", at |-> 1], [id |-> "2", doc |-> "call", at |-> 3]}

(* ------------------------------- C16 ---------------------------------- *)

\* the boxes the validation is said to refuse
Refused(b) ==
    \/ b.minLon.nan \/ b.minLat.nan \/ b.maxLon.nan \/ b.maxLat.nan
    \/ b.minLon.v >= b.maxLon.v
    \/ b.minLat.v >= b.maxLat.v
    \/ (b.maxLon.v - b.minLon.v) * (b.maxLat.v - b.minLat.v) > 2500
    \/ b.minLon.v < -18000 \/ b.minLon.v > 18000
    \/ b.maxLon.v < -18000 \/ b.maxLon.v > 18000
    \/ b.minLat.v < -9000 \/ b.minLat.v > 9000
    \/ b.maxLat.v < -9000 \/ b.maxLat.v > 9000

\* C16: validateInputs returns false exactly for the boxes with a coordinate
\* that is not a finite number, minLon >= maxLon, minLat >= maxLat, an area
\* above 0.25 square degrees, a longitude outside [-180, 180] or a latitude
\* outside [-90, 90]; a submission of such a box starts no load and reports a
\* validation message, and a submission of any other box on an empty map
\* starts one.
C16_ValidationGatesRequest ==
    [][\A box \in Boxes :
          handleFormSubmitWith(box)
          => /\ validateInputs(box) = ~Refused(box)
             /\ Refused(box) => /\ loads' = loads
                                /\ txq' = txq
                                /\ lastLog' # "Loading data .."
             /\ (~Refused(box) /\ ~cacheHoldsData(renderer))
                   => /\ lastLog' = "Loading data .."
                      /\ Cardinality(DOMAIN loads') = Cardinality(DOMAIN loads) + 1]_vars

\* a box of more than 0.25 square degrees has been refused; nothing is loading
C16_Witness ==
    /\ lastLog = "Bounding box area cannot exceed 0.25 square degrees"
    /\ loads = <<>>
    /\ txq = <<>>
    /\ phase # "booting"

(* --------------------------- C17 .. C20 ------------------------------- *)

Rendered == probe # Idle /\ probe.fn = "render"

\* what each operation of a pass draws, without how it is drawn
Outline(ops) ==
    [i \in DOMAIN ops |->
        IF ops[i].kind = "relation"
        THEN [kind |-> "relation", id |-> ops[i].id, member |-> ops[i].member]
        ELSE [kind |-> ops[i].kind, id |-> ops[i].id]]

\* the way or relation of the scene a draw operation is for
EntityOf(scene, op) ==
    IF op.kind = "way"
    THEN scene.ways[CHOOSE i \in DOMAIN scene.ways : scene.ways[i].id = op.id]
    ELSE scene.relations[CHOOSE i \in DOMAIN scene.relations : scene.relations[i].id = op.id]

\* the operations of one kind, in their order
RECURSIVE OfKind(_, _)
OfKind(ops, kind) ==
    IF ops = <<>> THEN <<>>
    ELSE (IF Head(ops).kind = kind THEN <<Head(ops)>> ELSE <<>>) \o OfKind(Tail(ops), kind)

\* the order of the operations i < j of a pass
InPaintOrder(scene, before, after) ==
    /\ before.kind = "point" => after.kind = "point"
    /\ (before.kind # "point" /\ after.kind # "point")
       => /\ zIndexOf(EntityOf(scene, before)) <= zIndexOf(EntityOf(scene, after))
          /\ (zIndexOf(EntityOf(scene, before)) = zIndexOf(EntityOf(scene, after))
                /\ before.kind = "way") => after.kind = "way"

\* C17: in one render pass the draw operations come in the order of the
\* z-index of the resolved style of their entity, at one z-index every
\* relation draw comes before every way draw, and every point draw comes
\* after all way and relation draws.
C17_PaintOrder ==
    Rendered => \A i \in DOMAIN probe.ops : \A j \in DOMAIN probe.ops :
                    i < j => InPaintOrder(probe.scene, probe.ops[i], probe.ops[j])

\* way "2" (z-index 1) is drawn before way "1" (z-index 4), relation "2"
\* (z-index 1) before way "2", relation "1" (z-index 3) between the two
\* ways, the points last
C17_Witness ==
    /\ Rendered
    /\ Outline(probe.ops) = << [kind |-> "relation", id |-> "2", member |-> "1"],
                      [kind |-> "way", id |-> "2"],
                      [kind |-> "relation", id |-> "1", member |-> "1"],
                      [kind |-> "way", id |-> "1"],
                      [kind |-> "point", id |-> "1"], [kind |-> "point", id |-> "2"] >>

\* C18: a way or a relation that resolves to the default rule (z-index 0) has
\* no draw operation of its own in a render pass, whatever the flags.
C18_DefaultNotDrawn ==
    Rendered => \A i \in DOMAIN probe.ops :
                    probe.ops[i].kind # "point"
                    => getRenderRule(EntityOf(probe.scene, probe.ops[i])) # DefaultRule

\* untagged way "1" has two known nodes and ways are shown: only way "2" and
\* the points are drawn
C18_Witness ==
    /\ Rendered
    /\ probe.r = [showNodes |-> TRUE, showWays |-> TRUE, showRelations |-> TRUE]
    /\ probe.scene.ways[1] = [id |-> "1", matches |-> {}, nodes |-> <<"1", "2">>]
    /\ Len(probe.scene.relations) = 1 /\ probe.scene.relations[1].matches = {}
    /\ Outline(probe.ops) = << [kind |-> "way", id |-> "2"],
                      [kind |-> "point", id |-> "1"], [kind |-> "point", id |-> "2"] >>

\* C19: every rule but the default one has a z-index in 1..4, and in a pass
\* with ways shown every way that resolves to such a rule and has at least
\* two resolvable node references has exactly one way draw.
C19_StyledWayDrawnOnce ==
    /\ \A i \in 1..(DefaultRule - 1) : ZIndexes[i] \in 1..4
    /\ (Rendered /\ probe.r.showWays)
       => \A k \in DOMAIN probe.scene.ways :
              (getRenderRule(probe.scene.ways[k]) # DefaultRule
                  /\ resolvable(probe.scene.ways[k].nodes, probe.scene.nodes) >= 2)
              => Cardinality({i \in DOMAIN probe.ops :
                                 /\ probe.ops[i].kind = "way"
                                 /\ probe.ops[i].id = probe.scene.ways[k].id}) = 1

\* way "1" under the last rule before the default one (z-index 3), a member
\* of relation "1" too: one relation draw, one way draw
C19_Witness ==
    /\ Rendered
    /\ probe.scene.ways[1] = [id |-> "1", matches |-> {DefaultRule - 1}, nodes |-> <<"1", "2">>]
    /\ Outline(probe.ops) = << [kind |-> "relation", id |-> "1", member |-> "1"],
                      [kind |-> "way", id |-> "1"] >>

\* C20: without showWays a pass has no way draw, without showRelations no
\* relation draw, without showNodes no point draw, and the draws of one kind
\* are the same whatever the two other flags are.
C20_FlagsIndependent ==
    Rendered
    => /\ ~probe.r.showWays => OfKind(probe.ops, "way") = <<>>
       /\ ~probe.r.showRelations => OfKind(probe.ops, "relation") = <<>>
       /\ ~probe.r.showNodes => OfKind(probe.ops, "point") = <<>>
       /\ \A other \in Flags :
             /\ other.showWays = probe.r.showWays
                => OfKind(renderPass(other, probe.scene), "way") = OfKind(probe.ops, "way")
             /\ other.showRelations = probe.r.showRelations
                => OfKind(renderPass(other, probe.scene), "relation")
                       = OfKind(probe.ops, "relation")
             /\ other.showNodes = probe.r.showNodes
                => OfKind(renderPass(other, probe.scene), "point") = OfKind(probe.ops, "point")

\* ways alone are shown: both ways are drawn, nothing else
C20_Witness ==
    /\ Rendered
    /\ probe.r = [showNodes |-> FALSE, showWays |-> TRUE, showRelations |-> FALSE]
    /\ Len(probe.scene.relations) = 2
    /\ Outline(probe.ops) = << [kind |-> "way", id |-> "2"], [kind |-> "way", id |-> "1"] >>


(* ------------------------------- C21 ---------------------------------- *)

\* C21: in a pass with ways shown, a way with fewer than two resolvable node
\* references has no way draw, every way draw has a path of at least two
\* points (so the pass reads no point that is not there), and every other
\* way under a rule that is not the default one is still drawn, wherever it
\* stands in the cache.
C21_ShortWaySkipped ==
    (Rendered /\ probe.r.showWays)
    => /\ \A i \in DOMAIN probe.ops : probe.ops[i].kind = "way" => probe.ops[i].points >= 2
       /\ \A k \in DOMAIN probe.scene.ways :
             IF resolvable(probe.scene.ways[k].nodes, probe.scene.nodes) < 2
             THEN \A i \in DOMAIN probe.ops :
                      probe.ops[i].kind = "way" => probe.ops[i].id # probe.scene.ways[k].id
             ELSE getRenderRule(probe.scene.ways[k]) # DefaultRule
                  => \E i \in DOMAIN probe.ops :
                        /\ probe.ops[i].kind = "way"
                        /\ probe.ops[i].id = probe.scene.ways[k].id

\* way "1", before way "2" in the cache and at its z-index, names unknown
\* nodes only: way "2" alone is drawn
C21_Witness ==
    /\ Rendered
    /\ probe.r = [showNodes |-> FALSE, showWays |-> TRUE, showRelations |-> TRUE]
    /\ probe.scene.ways = << [id |-> "1", matches |-> {21}, nodes |-> <<"9">>],
                             [id |-> "2", matches |-> {21}, nodes |-> <<"2", "1", "2">>] >>
    /\ probe.scene.relations = <<>>
    /\ Outline(probe.ops) = << [kind |-> "way", id |-> "2"] >>


(* ------------------------------- C22 ---------------------------------- *)

\* the members of a relation that name a cached way of two points or more
DrawableMembers(relation, ref) ==
    {j \in DOMAIN relation.members :
        /\ relation.members[j].type = "way"
        /\ relation.members[j].ref = ref
        /\ \E k \in DOMAIN probe.scene.ways :
              /\ probe.scene.ways[k].id = ref
              /\ resolvable(probe.scene.ways[k].nodes, probe.scene.nodes) >= 2}

\* C22: in a pass with relations shown, a relation under a rule that is not
\* the default one has one draw for each of its members of kind "way" whose
\* reference names a cached way of two points or more, and none for a member
\* of another kind or with a reference that names no cached way, wherever
\* that member stands among the others; every such draw has a path of two
\* points or more.
C22_UndrawableMemberSkipped ==
    (Rendered /\ probe.r.showRelations)
    => /\ \A i \in DOMAIN probe.ops :
             probe.ops[i].kind = "relation" => probe.ops[i].points >= 2
       /\ \A k \in DOMAIN probe.scene.relations :
             getRenderRule(probe.scene.relations[k]) # DefaultRule
             => \A ref \in {"1", "2", "7"} :
                   Cardinality({i \in DOMAIN probe.ops :
                                   /\ probe.ops[i].kind = "relation"
                                   /\ probe.ops[i].id = probe.scene.relations[k].id
                                   /\ probe.ops[i].member = ref})
                   = Cardinality(DrawableMembers(probe.scene.relations[k], ref))

\* relation "1" has way "2", node "1", a way "7" that is not cached and
\* way "1" as members: ways "2" and "1" are drawn for it, nothing else
C22_Witness ==
    /\ Rendered
    /\ probe.r = [showNodes |-> FALSE, showWays |-> FALSE, showRelations |-> TRUE]
    /\ Len(probe.scene.relations) = 1
    /\ probe.scene.relations[1].matches = {1}
    /\ probe.scene.relations[1].members
          = << Member("way", "2"), Member("node", "1"), Member("way", "7"), Member("way", "1") >>
    /\ Outline(probe.ops) = << [kind |-> "relation", id |-> "1", member |-> "2"],
                               [kind |-> "relation", id |-> "1", member |-> "1"] >>


(* ------------------------------- C23 ---------------------------------- *)

\* the points of the member way a relation draw is for
MemberPath(scene, op) == resolved(findWay(op.member, scene.ways).nodes, scene.nodes)

\* C23: every relation draw of a pass is made with the styles of the rule the
\* relation resolves to (stroke colour, fill colour, line width), whatever
\* rule the member way resolves to; it is filled exactly when that rule says
\* shouldFill and the path of the member is closed; and it stands among the
\* way draws at the z-index of the relation: after the ways of a lower
\* z-index, before the ways of the same or a higher one.
C23_MemberTakesRelationStyle ==
    Rendered
    => \A i \in DOMAIN probe.ops :
          probe.ops[i].kind = "relation"
          => /\ probe.ops[i].rule = getRenderRule(EntityOf(probe.scene, probe.ops[i]))
             /\ probe.ops[i].fill
                   = (/\ probe.ops[i].rule \in FillRules
                      /\ MemberPath(probe.scene, probe.ops[i])[1]
                            = MemberPath(probe.scene, probe.ops[i])[probe.ops[i].points])
             /\ \A j \in DOMAIN probe.ops :
                   probe.ops[j].kind = "way"
                   => ((i < j) = (ZIndexes[probe.ops[i].rule]
                                     <= zIndexOf(EntityOf(probe.scene, probe.ops[j]))))

\* relation "1" is a building (z-index 3, filled); its member way "2" is a
\* closed motorway (z-index 4, not filled), its member way "1" an open retail
\* area (z-index 1): both are drawn with the building styles between the two
\* way draws, the closed one filled
C23_Witness ==
    /\ Rendered
    /\ probe.r = [showNodes |-> FALSE, showWays |-> TRUE, showRelations |-> TRUE]
    /\ probe.ops = << [kind |-> "way", id |-> "1", rule |-> 21, points |-> 2, fill |-> FALSE],
                      [kind |-> "relation", id |-> "1", member |-> "2", rule |-> 1,
                       points |-> 3, fill |-> TRUE],
                      [kind |-> "relation", id |-> "1", member |-> "1", rule |-> 1,
                       points |-> 2, fill |-> FALSE],
                      [kind |-> "way", id |-> "2", rule |-> 36, points |-> 3, fill |-> FALSE] >>


(* ----------------------------- C24, C25 ------------------------------- *)

Looked == probe # Idle /\ probe.fn = "getRenderRule"

HasTag(tags, key, value) ==
    \E t \in DOMAIN tags : tags[t].key = key /\ tags[t].value = value

\* C24: the rule a lookup returns is the first rule of the table whose
\* condition the tags satisfy; an element with a building tag and
\* highway=motorway gets rule 1 (building, z-index 3), and an element with
\* amenity=parking and no tag of an earlier rule gets rule 12 (parking,
\* z-index 2), not the amenity rule 34 (z-index 1) that it satisfies too.
C24_FirstMatchWins ==
    Looked
    => /\ condition(probe.rule, probe.tags)
       /\ \A j \in 1..(probe.rule - 1) : ~condition(j, probe.tags)
       /\ (HasTag(probe.tags, "building", "yes") /\ HasTag(probe.tags, "highway", "motorway"))
          => (probe.rule = 1 /\ Conditions[1] = <<"building">> /\ ZIndexes[probe.rule] = 3)
       /\ (/\ HasTag(probe.tags, "amenity", "parking")
           /\ \A t \in DOMAIN probe.tags : probe.tags[t].key \in {"amenity", "name", "parking"})
          => /\ probe.rule = 12 /\ ZIndexes[probe.rule] = 2
             /\ condition(34, probe.tags) /\ Conditions[34] = <<"amenity">> /\ ZIndexes[34] = 1

\* highway=motorway stands before the building tag in the list of the
\* element: the building rule is returned
C24_Witness ==
    /\ Looked
    /\ probe.tags = << Tag("highway", "motorway"), Tag("building", "yes") >>
    /\ probe.rule = 1

Built == probe # Idle /\ probe.fn = "buildNodesMap"

\* C26: the map buildNodesMap returns has an entry for the id of every node
\* it is given and for no other id, under that id, also for the nodes the
\* trimmed box leaves out.
C26_EveryNodeProjected ==
    Built
    => /\ DOMAIN probe.map = {probe.nodes[i].id : i \in DOMAIN probe.nodes}
       /\ \A id \in DOMAIN probe.map : probe.map[id].id = id

\* fifty nodes: the box is trimmed to latitudes 50 to 52 and longitudes 0 to
\* 2, and nodes "1" at (60, 10) and "2" at (40, -10) are in the map
C26_Witness ==
    /\ Built
    /\ Len(probe.nodes) = 50
    /\ probe.nodes[1].lat = 60 /\ probe.nodes[2].lat = 40
    /\ trimmedBox(probe.nodes) = [minLat |-> 50, maxLat |-> 52, minLon |-> 0, maxLon |-> 2]
    /\ {"1", "2"} \subseteq DOMAIN probe.map
    /\ probe.map["1"].x.k = "finite"


\* the width and the height of the trimmed box of the call
BoxWidth == trimmedBox(probe.nodes).maxLon - trimmedBox(probe.nodes).minLon

BoxHeight == trimmedBox(probe.nodes).maxLat - trimmedBox(probe.nodes).minLat

AllFinite ==
    \A id \in DOMAIN probe.map :
        probe.map[id].x.k = "finite" /\ probe.map[id].y.k = "finite"

\* C27: for a trimmed box of zero width or zero height the scale is that of
\* the other axis times the zoom level, for a box of zero width and zero
\* height the scale is 1, and in both cases every node gets finite x and y.
C27_ZeroBoxProjected ==
    (Built /\ probe.nodes # <<>> /\ (BoxWidth = 0 \/ BoxHeight = 0))
    => /\ AllFinite
       /\ (BoxWidth = 0 /\ BoxHeight # 0)
          => scaleOf(probe.r, trimmedBox(probe.nodes))
                = Finite(CanvasHeight * probe.r.zoomLevel, BoxHeight)
       /\ (BoxHeight = 0 /\ BoxWidth # 0)
          => scaleOf(probe.r, trimmedBox(probe.nodes))
                = Finite(CanvasWidth * probe.r.zoomLevel, BoxWidth)
       /\ (BoxWidth = 0 /\ BoxHeight = 0)
          => scaleOf(probe.r, trimmedBox(probe.nodes)) = Finite(1, 1)


(* ------------------------------- C28 ---------------------------------- *)

\* C28: a render call that begins with the cache ready leaves the renderer
\* as it is (the three cached collections, the zoom level, the offsets, the
\* visibility flags and every other field), starts no transaction, suspends
\* no call and writes nothing to localStorage; it writes the counters and
\* the canvas.
C28_ReadyPassOnlyDraws ==
    (renderer.cacheReady /\ renderer.database # Null)
    => /\ render(Machine, "loop").r = renderer
       /\ render(Machine, "loop").ls = localStorage
       /\ render(Machine, "loop").txq = txq
       /\ render(Machine, "loop").renders = renders
       /\ render(Machine, "loop").log = "none"
       /\ render(Machine, "loop").canvas
             = [blank |-> FALSE, ox |-> renderer.currentOffsetX,
                oy |-> renderer.currentOffsetY, zoom |-> renderer.zoomLevel]

\* the render loop has just made a pass over a loaded cache after a pan: the
\* canvas shows the panned offset, the cache is as it was loaded
C28_Witness ==
    /\ calls = <<"loop">>
    /\ renderer.cacheReady
    /\ renders = <<>>
    /\ renderer.cachedWays # {}
    /\ renderer.currentOffsetX = 1
    /\ renderer.offsetX = 0
    /\ canvas = [blank |-> FALSE, ox |-> 1, oy |-> renderer.currentOffsetY,
                 zoom |-> renderer.zoomLevel]

(* ------------------------------ throttle ------------------------------ *)

\* the delay of throttle(onMouseMove, 50), in ms
ThrottleDelay == 50

\* the time between two events: just under the delay, or the delay
Ticks == {ThrottleDelay - 1, ThrottleDelay}

\* Date.now() when the page starts, and how long the page is watched
StartClock == 20 * ThrottleDelay

MaxElapsed == 150

\* the clock and the lastCall of the throttle closure; panTimes records when
\* updateCurrentOffset was called
Throttle(now, lastCall, panTimes) ==
    [fn |-> "throttle", now |-> now, lastCall |-> lastCall, panTimes |-> panTimes]

\* a fresh page: nothing saved, nothing stored
ThrottleInit ==
    /\ InitCommon /\ handle = Handle
    /\ localStorage = FreshSettings /\ db = EmptyStores
    /\ probe = Throttle(StartClock, 0, <<>>)

\* a throttle that lets every event through
throttlePasses_always(now, lastCall) == now - lastCall >= 0

\* now - lastCall >= delay
throttlePasses(now, lastCall) == now - lastCall >= ThrottleDelay

\* a mousemove event on the canvas: the function throttle returns, around
\* onMouseMove
mouseMove ==
    /\ phase = "running"
    /\ IF throttlePasses(probe.now, probe.lastCall)
       THEN \E x \in Coords, y \in Coords :
               /\ Apply(IF pan.isPanning
                        THEN updateCurrentOffset(Machine, x - pan.startX, y - pan.startY)
                        ELSE Machine)
               /\ probe' = Throttle(probe.now, probe.now,
                                    IF pan.isPanning THEN Append(probe.panTimes, probe.now)
                                    ELSE probe.panTimes)
       ELSE /\ Apply(Machine)
            /\ probe' = probe
    /\ UNCHANGED <<loadedDocs, phase, handle, db, loads, pan, events>>

\* time goes by between two events
timePasses ==
    /\ \E d \in Ticks :
          /\ probe.now + d <= StartClock + MaxElapsed
          /\ probe' = [probe EXCEPT !.now = @ + d]
    /\ UNCHANGED world

NextThrottle ==
    \/ initialiseApp
    \/ renderFrame
    \/ getAllSucceeds
    \/ onMouseDown
    \/ mouseMove
    \/ onMouseUp
    \/ timePasses

\* panning with the clock of the throttle
ThrottleSpec == ThrottleInit /\ [][NextThrottle]_vars

(* ------------------------------- C29 ---------------------------------- *)

\* C29: any two calls of updateCurrentOffset made for mousemove events are at
\* least 50 ms apart by the clock the throttle reads, and a mousemove event
\* that comes less than 50 ms after such a call changes nothing of the
\* renderer, of localStorage or of the pan.
C29_PanUpdatesThrottled ==
    [][mouseMove
       => /\ \A i \in DOMAIN probe'.panTimes : \A j \in DOMAIN probe'.panTimes :
                i < j => probe'.panTimes[j] - probe'.panTimes[i] >= ThrottleDelay
          /\ (/\ probe.panTimes # <<>>
              /\ probe.now - probe.panTimes[Len(probe.panTimes)] < ThrottleDelay)
             => /\ renderer' = renderer
                /\ localStorage' = localStorage
                /\ pan' = pan
                /\ probe'.panTimes = probe.panTimes]_vars

\* the pan was updated when the page started and 50 ms later, and the event
\* that came 49 ms after that changed nothing
C29_Witness ==
    /\ probe.panTimes = <<StartClock, StartClock + ThrottleDelay>>
    /\ probe.now = StartClock + 2 * ThrottleDelay - 1
    /\ probe.lastCall = StartClock + ThrottleDelay
    /\ lastLog = "none"
    /\ calls = <<>>
    /\ renderer.needsRender
    /\ renderer.currentOffsetX = 1


(* ------------------------------- C30 ---------------------------------- *)

\* C30: a form submission made while a load is between its acceptance and
\* its completion (fetching, parsing or storing) is refused: it starts no
\* second load.
C30_NoSecondLoad ==
    [][(loads # <<>> /\ handleFormSubmit) => loads' = loads]_vars


(* ------------------------------- C31 ---------------------------------- *)

\* no load, no clear, no fetch and no other transaction is in progress
Quiet == loads = <<>> /\ txq = <<>> /\ renders = <<>>

\* C31: whenever cacheReady is true and no load, clear or fetch is in
\* progress, the three cached collections hold exactly the records of the
\* three collections of the database.
C31_CacheMirrorsStore ==
    (renderer.cacheReady /\ Quiet)
    => /\ renderer.cachedNodes = db.nodes
       /\ renderer.cachedWays = db.ways
       /\ renderer.cachedRelations = db.relations


(* ------------------------------- C32 ---------------------------------- *)

\* the renderer after restoreCanvasState and the three setupToggle
\* initialisers have run once more on the settings stored now
Restored == setupEventListeners(restoreCanvasState(Machine)).r

\* C32: while the application runs and no drag, load or clear is in
\* progress, start-up restoration run on the stored settings gives the zoom
\* level, the committed offsets and the three visibility flags the renderer
\* holds.
C32_SettingsRestoreRenderer ==
    (phase = "running" /\ ~pan.isPanning /\ loads = <<>> /\ ~ClearPending)
    => /\ Restored.zoomLevel = renderer.zoomLevel
       /\ Restored.offsetX = renderer.offsetX
       /\ Restored.offsetY = renderer.offsetY
       /\ Restored.showWays = renderer.showWays
       /\ Restored.showNodes = renderer.showNodes
       /\ Restored.showRelations = renderer.showRelations


(* ------------------------------- C33 ---------------------------------- *)

EdgeZooms == {MIN_ZOOM_LEVEL + 1, MAX_ZOOM_LEVEL}

\* a page opened on an empty database with the settings an earlier session
\* of the application stored
ResumeInit(settings) ==
    /\ phase = "booting"
    /\ handle = Handle
    /\ renderer = MapRenderer
    /\ localStorage = settings
    /\ db = EmptyStores
    /\ txq = <<>>
    /\ renders = <<>>
    /\ loads = <<>>
    /\ canvas = Blank
    /\ uiCounts = [nodes |-> 0, ways |-> 0, relations |-> 0]
    /\ pan = [isPanning |-> FALSE, startX |-> 0, startY |-> 0]
    /\ events = 0
    /\ lastLog = "none"
    /\ calls = <<>>
    /\ loadedDocs = {}
    /\ probe = Idle

ZoomInit ==
    \E z \in EdgeZooms : ResumeInit([FreshSettings EXCEPT !.zoomLevel = String(z)])

ZoomSpec == ZoomInit /\ [][Next]_vars

ZoomInRange ==
    /\ renderer.zoomLevel >= MIN_ZOOM_LEVEL
    /\ renderer.zoomLevel <= MAX_ZOOM_LEVEL

\* C34: the zoom level is between 0.4 and 6 in every reachable state, and
\* right after a click on a zoom button the stored zoomLevel is the zoom
\* level of the renderer.
C34_ZoomBoundedAndPersisted ==
    /\ []ZoomInRange
    /\ [][(zoomIn \/ zoomOut)
            => localStorage'.zoomLevel = String(renderer'.zoomLevel)]_vars

C34_Witness ==
    /\ renderer.zoomLevel = MIN_ZOOM_LEVEL
    /\ localStorage.zoomLevel = String(MIN_ZOOM_LEVEL)
    /\ events = MaxUserEvents
    /\ renders = <<>>


(* ------------------------------- C35 ---------------------------------- *)

\* the steps whose handler calls render once, on the cache as the step finds
\* it: an animation frame, a zoom click, a toggle click
CallsRender ==
    renderFrame \/ zoomIn \/ zoomOut \/ toggleWays \/ toggleNodes \/ toggleRelations

\* C35: a render called while cacheReady is true queues no transaction on
\* the database and leaves no suspended call behind: the canvas is cleared
\* and drawn, at the offset and zoom the renderer has, before the step ends.
C35_ReadyRenderIsOneStep ==
    [][(CallsRender /\ renderer.cacheReady /\ renderer.database # Null)
        => /\ txq' = txq
           /\ renders' = renders
           /\ db' = db
           /\ renderer'.cacheReady
           /\ canvas' = [blank |-> FALSE, ox |-> renderer'.currentOffsetX,
                         oy |-> renderer'.currentOffsetY,
                         zoom |-> renderer'.zoomLevel]]_vars

\* a zoom click has just rendered from a loaded cache
C35_Witness ==
    /\ calls = <<"handler">>
    /\ renderer.cacheReady
    /\ renderer.cachedNodes # {}
    /\ renderer.zoomLevel = DefaultZoom + ZoomStep
    /\ localStorage.zoomLevel = String(renderer.zoomLevel)
    /\ events > 0
    /\ canvas = [blank |-> FALSE, ox |-> renderer.currentOffsetX,
                 oy |-> renderer.currentOffsetY, zoom |-> renderer.zoomLevel]


(* ------------------------------- C36 ---------------------------------- *)

\* the settings of a session that panned, zoomed and switched the three
\* layers off
HiddenSettings ==
    [zoomLevel |-> String(DefaultZoom + ZoomStep), offsetX |-> String(1),
     offsetY |-> String(0), showWays |-> Stored("false"),
     showNodes |-> Stored("false"), showRelations |-> Stored("false")]

LoadInit == ResumeInit(HiddenSettings)

LoadSpec == LoadInit /\ [][Next]_vars

\* the step in which the last of the three writes of a load commits and the
\* handler of the form goes on after its await
LoadCompletes == storeCompletes /\ lastLog' = "Data loaded successfully"

\* C36: when a load completes successfully the renderer has zoom level 2.0
\* and the four offsets 0, the settings store holds zoomLevel 2.0 and
\* offsetX and offsetY 0, the cache is empty with cacheReady false so that the
\* follow-up render reads the database, and at least one visibility flag is
\* true.
C36_LoadCompletionState ==
    [][LoadCompletes
        => /\ renderer'.zoomLevel = LoadedZoom
           /\ renderer'.offsetX = 0 /\ renderer'.offsetY = 0
           /\ renderer'.currentOffsetX = 0 /\ renderer'.currentOffsetY = 0
           /\ parseFloat(localStorage'.zoomLevel) = LoadedZoom
           /\ parseFloat(localStorage'.offsetX) = 0
           /\ parseFloat(localStorage'.offsetY) = 0
           /\ ~renderer'.cacheReady
           /\ renderer'.cachedNodes = {}
           /\ renderer'.cachedWays = {}
           /\ renderer'.cachedRelations = {}
           /\ DOMAIN renders' # DOMAIN renders
           /\ Len(txq') = Len(txq) - 1 + Cardinality(STORE_NAMES)
           /\ renderer'.showNodes \/ renderer'.showWays \/ renderer'.showRelations]_vars

\* a load has just completed with no flag set: ways and relations were
\* switched on, the pan and zoom of before are gone
C36_Witness ==
    /\ lastLog = "Data loaded successfully"
    /\ ~renderer.cacheReady
    /\ ~renderer.showNodes /\ renderer.showWays /\ renderer.showRelations
    /\ localStorage.showRelations = Stored("true")
    /\ localStorage.showNodes = Stored("false")
    /\ renderer.zoomLevel = LoadedZoom
    /\ localStorage.offsetX = Stored(0)


(* ------------------------------- C37 ---------------------------------- *)

\* a direct call of drawWays has returned its canvas calls
Stroked == probe # Idle /\ probe.fn = "drawWays"

\* the way of the call that has the id
WayOf(id) == CHOOSE w \in {probe.ways[i] : i \in DOMAIN probe.ways} : w.id = id

\* the first and the last resolved point of the way have the same x and y
EndsMeet(w) ==
    LET points == pointsOf(w.nodes, probe.projection) IN
    /\ points[1].x = points[Len(points)].x
    /\ points[1].y = points[Len(points)].y

\* C37: for each way drawWays draws, the last canvas call is the stroke at
\* the line width and stroke colour of the style; a style with casing puts
\* one stroke at 1.2 times the line width in the casing colour first, and
\* no other style does; closePath and fill come between the two, exactly when
\* the style fills and the ends of the path meet; there is no other call.
C37_CasingFillStroke ==
    Stroked =>
      \A k \in DOMAIN probe.drawn :
        LET c == probe.drawn[k].calls
            w == WayOf(probe.drawn[k].way)
            rule == getRenderRule(w)
            cased == IF rule \in CasingRules THEN 1 ELSE 0
            filled == IF rule \in FillRules /\ EndsMeet(w) THEN 2 ELSE 0
        IN /\ Len(c) = cased + filled + 1
           /\ c[Len(c)] = stroke(10 * lineWidth(rule), StrokeStyles[rule])
           /\ cased = 1 => c[1] = stroke(12 * lineWidth(rule), casingStrokeStyle(rule))
           /\ filled = 2 => /\ c[cased + 1] = [call |-> "closePath"]
                            /\ c[cased + 2] = [call |-> "fill", fillStyle |-> FillStyles[rule]]

\* a railway whose path ends on another node at the place of its first one:
\* casing, closePath, fill, stroke
C37_Witness ==
    /\ Stroked
    /\ probe.ways = <<[id |-> "1", matches |-> {44}, nodes |-> <<"1", "2", "3">>]>>
    /\ probe.drawn
         = <<[way |-> "1",
              calls |-> <<stroke(24, "#707070"), [call |-> "closePath"],
                          [call |-> "fill", fillStyle |-> "#707070"],
                          stroke(20, "#707070")>>]>>


(* ------------------------------- C38 ---------------------------------- *)

\* floor(0.02 * n) and ceil(0.98 * n), in hundredths
FloorOfTwoPercent(n) == (2 * n) \div 100

CeilOfNinetyEightPercent(n) == (98 * n + 99) \div 100

\* v is the value at index k (from 0) of the values in ascending order
AtSortedIndex(values, v, k) ==
    /\ \E i \in DOMAIN values : values[i] = v
    /\ Cardinality({i \in DOMAIN values : values[i] < v}) <= k
    /\ Cardinality({i \in DOMAIN values : values[i] <= v}) > k

\* C38: for n >= 1 points the box of buildNodesMap has, for the latitudes and
\* for the longitudes, the sorted value at index floor(0.02 n) as minimum and
\* the one at index ceil(0.98 n) - 1 as maximum; floor(0.02 n) values are
\* left out at each end, the minimum is not above the maximum, and for
\* n < 50 the box is that of all the points.
C38_TrimmedBoxIndexes ==
    (Built /\ Len(probe.nodes) >= 1)
    => LET n == Len(probe.nodes)
           lo == FloorOfTwoPercent(n)
           hi == CeilOfNinetyEightPercent(n) - 1
           box == trimmedBox(probe.nodes)
           lats == latitudes(probe.nodes)
           lons == longitudes(probe.nodes)
       IN /\ AtSortedIndex(lats, box.minLat, lo)
          /\ AtSortedIndex(lats, box.maxLat, hi)
          /\ AtSortedIndex(lons, box.minLon, lo)
          /\ AtSortedIndex(lons, box.maxLon, hi)
          /\ n - 1 - hi = lo
          /\ box.minLat <= box.maxLat
          /\ box.minLon <= box.maxLon
          /\ n < 50 => /\ lo = 0
                       /\ \A i \in 1..n : /\ box.minLat <= lats[i] /\ lats[i] <= box.maxLat
                                          /\ box.minLon <= lons[i] /\ lons[i] <= box.maxLon

\* a hundred points: the two farthest at each end are outside the box
C38_Witness ==
    /\ Built
    /\ Len(probe.nodes) = 100
    /\ startIndex(100) = 2
    /\ endIndex(100) = 98
    /\ probe.nodes[1].lat = 60 /\ probe.nodes[2].lat = 40
    /\ trimmedBox(probe.nodes).maxLat = 52
    /\ trimmedBox(probe.nodes).minLat = 50


(* ---------------------- the Random bounding box ----------------------- *)

\* originalOptions of setupRandomButton, in units of 1e-7 degrees
originalOptions ==
    << [minLon |-> -7780766, minLat |-> 520379866, maxLon |-> -7422423, maxLat |-> 520503396],
       [minLon |-> -5227089, minLat |-> 514826925, maxLon |-> -4510403, maxLat |-> 515077007],
       [minLon |-> -5784988, minLat |-> 513882804, maxLon |-> -5068302, maxLat |-> 514133404],
       [minLon |-> -1740432, minLat |-> 515213613, maxLon |-> -1382089, maxLat |-> 515338566],
       [minLon |-> -25979018, minLat |-> 514221724, maxLon |-> -25620675, maxLat |-> 514346948],
       [minLon |-> -32200022, minLat |-> 559513507, maxLon |-> -32000002, maxLat |-> 559599726] >>

MaxClicks == 13

\* the values of Math.random(), in sixtieths: 0 <= Math.random() < 1
RandomDraws == [i \in 1..60 |-> i - 1]

\* the closure of setupRandomButton and the four input fields; clicks and
\* picked record the clicks made and the options selected since the last
\* click whose number was a multiple of the number of options
RandomButton(tempOptions, fields, clicks, picked) ==
    [fn |-> "random", tempOptions |-> tempOptions, fields |-> fields,
     clicks |-> clicks, picked |-> picked]

\* tempOptions.splice(index, 1), on the array
splice(options, index) ==
    [i \in 1..(Len(options) - 1) |-> IF i <= index THEN options[i] ELSE options[i + 1]]

\* a click handler that leaves the selected option in the list
click_keepsOption(b, random) ==
    LET options == IF Len(b.tempOptions) = 0 THEN originalOptions ELSE b.tempOptions
        index == (random * Len(options)) \div Len(RandomDraws)
    IN RandomButton(options, options[index + 1], b.clicks + 1,
                    IF b.clicks % Len(originalOptions) = 0 THEN <<options[index + 1]>>
                    ELSE Append(b.picked, options[index + 1]))

\* the click handler; random is the value of Math.random() in sixtieths, and
\* index is Math.floor(Math.random() * tempOptions.length)
click(b, random) ==
    LET options == IF Len(b.tempOptions) = 0 THEN originalOptions ELSE b.tempOptions
        index == (random * Len(options)) \div Len(RandomDraws)
    IN RandomButton(splice(options, index), options[index + 1], b.clicks + 1,
                    IF b.clicks % Len(originalOptions) = 0 THEN <<options[index + 1]>>
                    ELSE Append(b.picked, options[index + 1]))

\* the page with the button set up and the fields empty
RandomInit ==
    /\ InitCommon /\ handle = Handle
    /\ localStorage = FreshSettings /\ db = EmptyStores
    /\ probe = RandomButton(originalOptions, Absent, 0, <<>>)

randomClick ==
    /\ probe.clicks < MaxClicks
    /\ \E i \in DOMAIN RandomDraws : probe' = click(probe, RandomDraws[i])
    /\ UNCHANGED world

NextRandom == randomClick

RandomSpec == RandomInit /\ [][NextRandom]_vars

(* ------------------------------- C39 ---------------------------------- *)

\* the six predefined options
Options == {originalOptions[i] : i \in DOMAIN originalOptions}

\* C39: within each group of six clicks 6k+1 .. 6k+6 no option is selected
\* twice, so the six clicks of a complete group select each of the six options
\* exactly once; the options not yet selected in the group are the ones the
\* next click chooses from, and the click after a complete group chooses
\* from all six.
C39_EachOptionOncePerCycle ==
    LET picked == probe.picked
        left == {probe.tempOptions[i] : i \in DOMAIN probe.tempOptions}
    IN /\ \A i, j \in DOMAIN picked : picked[i] = picked[j] => i = j
       /\ \A i \in DOMAIN picked : picked[i] \in Options
       /\ Len(picked) = Len(originalOptions)
            => {picked[i] : i \in DOMAIN picked} = Options
       /\ left = Options \ {picked[i] : i \in DOMAIN picked}
       /\ probe.clicks > 0 => probe.fields = picked[Len(picked)]
       /\ Len(picked) = (IF probe.clicks = 0 THEN 0
                         ELSE ((probe.clicks - 1) % Len(originalOptions)) + 1)

\* the seventh click has started a new group: one option selected, the
\* other five left to choose from
C39_Witness ==
    /\ probe.clicks = Len(originalOptions) + 1
    /\ probe.picked = <<originalOptions[3]>>
    /\ probe.fields = originalOptions[3]
    /\ Len(probe.tempOptions) = Len(originalOptions) - 1

====
